---- MODULE Spec2Model ----
(***************************************************************************)
(* Request orchestration layer of data.js (the advanced variant is         *)
(* src/unnamed/part_000, the basic one src/data.js): key construction,     *)
(* cache store, in-flight registry, cancellation registry, request engine, *)
(* endpoint registry and the pagination helpers.                            *)
(*                                                                         *)
(* Strings are modelled as sequences of atoms (short strings), so that     *)
(* concatenation is \o and String.includes is a contiguous-subsequence     *)
(* test.  Time is a natural number of ticks.                               *)
(***************************************************************************)
EXTENDS Integers, Sequences, FiniteSets, TLC

\* ------------------------------------------------------------------ bounds
\* Last tick of the clock (Date.now() ranges over 0..MaxTime).
MaxTime == 2
\* CACHE_CONFIG.maxSize, scaled down from 100 so that eviction happens.
MaxSize == 2
\* Largest number of cache operations in one run of SpecCache: enough to fill
\* the store, evict once and look a key up.
MaxOps == MaxSize + 2

\* Largest number of network calls in flight at once (foreground and background).
MaxReqs == 2
\* The page by which the data of the paged server ends: the longest run of
\* requests of one getAll / getCursor call.
MaxServed == 3
\* The calls made to the endpoint of lib.js.
MaxLibCalls == 3

\* ------------------------------------------------------ program constants
\* CACHE_CONFIG.ttl (5 minutes) and DEFAULT_TIMEOUT (30 s), in ticks.
CacheTtl == 2
DefaultTimeout == 1
\* The delay of the loading signal's debounce timer (100 ms), in ticks of 50 ms.
DebounceTicks == 2

\* --------------------------------------------------------------- JS values
\* A scalar or array value: t is the typeof tag, s the text String(v) gives a
\* scalar, items the elements (texts) of an array.
Undef == [t |-> "undefined", s |-> "undefined", items |-> <<>>]
Null == [t |-> "null", s |-> "null", items |-> <<>>]
Num(s) == [t |-> "number", s |-> s, items |-> <<>>]
Str(s) == [t |-> "string", s |-> s, items |-> <<>>]
Arr(items) == [t |-> "array", s |-> "", items |-> items]

RECURSIVE Join(_, _)
\* Array.prototype.join: the items separated by sep.
Join(items, sep) ==
  IF items = <<>> THEN <<>>
  ELSE IF Len(items) = 1 THEN <<items[1]>>
  ELSE <<items[1], sep>> \o Join(Tail(items), sep)

\* String(v) as a sequence of atoms.
String(v) == IF v.t = "array" THEN Join(v.items, ",") ELSE <<v.s>>

\* Code-unit order of the parameter names the model uses ("a" < "b" < "id").
KeyRank(k) == CASE k = "a" -> 1 [] k = "b" -> 2 [] k = "id" -> 3 [] OTHER -> 4

\* A parameter object is a sequence of [k, v] entries with distinct k, in
\* insertion order (Object.keys / Object.entries order for non-index names).
ObjKeys(obj) == {obj[i].k : i \in 1..Len(obj)}
ObjGet(obj, k) ==
  IF k \in ObjKeys(obj) THEN (CHOOSE e \in {obj[i] : i \in 1..Len(obj)} : e.k = k).v
  ELSE Undef
ObjDelete(obj, k) == SelectSeq(obj, LAMBDA e : e.k # k)

RECURSIVE InsertSorted(_, _)
InsertSorted(e, sorted) ==
  IF sorted = <<>> THEN <<e>>
  ELSE IF KeyRank(e.k) < KeyRank(sorted[1].k) THEN <<e>> \o sorted
  ELSE <<sorted[1]>> \o InsertSorted(e, Tail(sorted))

RECURSIVE SortEntries(_)
\* Array.prototype.sort on the entries' names (stable insertion sort).
SortEntries(entries) ==
  IF entries = <<>> THEN <<>>
  ELSE InsertSorted(entries[Len(entries)], SortEntries(SubSeq(entries, 1, Len(entries) - 1)))

RECURSIVE JoinSeqs(_, _)
\* parts.join(sep) for parts that are atom sequences.
JoinSeqs(parts, sep) ==
  IF parts = <<>> THEN <<>>
  ELSE IF Len(parts) = 1 THEN parts[1]
  ELSE parts[1] \o <<sep>> \o JoinSeqs(Tail(parts), sep)

\* ------------------------------------------------- key and serialization
\* walk(v) of stableStringify for the values of the model.
Walk(v) ==
  CASE v.t = "string" -> <<"\"", v.s, "\"">>
    [] v.t = "number" -> <<v.s>>
    [] v.t = "array" -> <<"[">> \o Join([i \in 1..Len(v.items) |-> v.items[i]], ",") \o <<"]">>
    [] OTHER -> <<"null">>

\* stableStringify of a parameter object: undefined-valued names dropped,
\* names sorted, "name":value parts joined by commas inside braces.
stableStringify(obj) ==
  LET keys == SortEntries(SelectSeq(obj, LAMBDA e : e.v # Undef))
      parts == [i \in 1..Len(keys) |-> <<"\"", keys[i].k, "\"", ":">> \o Walk(keys[i].v)]
  IN <<"{">> \o JoinSeqs(parts, ",") \o <<"}">>

RECURSIVE parseUrlFrom(_, _)
\* parseUrl over the segments of a template: a segment is a literal, or a
\* placeholder :name that is replaced when the remaining parameters hold a
\* value other than undefined under that name, which is then consumed.
parseUrlFrom(url, remaining) ==
  IF url = <<>> THEN [finalUrl |-> <<>>, remainingParams |-> remaining]
  ELSE LET seg == url[1]
           hit == seg.ph /\ ObjGet(remaining, seg.s) # Undef
           rest == parseUrlFrom(Tail(url), IF hit THEN ObjDelete(remaining, seg.s) ELSE remaining)
           text == IF hit THEN String(ObjGet(remaining, seg.s))
                   ELSE IF seg.ph THEN <<":", seg.s>> ELSE <<seg.s>>
       IN [finalUrl |-> text \o rest.finalUrl, remainingParams |-> rest.remainingParams]

parseUrl(url, params) == parseUrlFrom(url, params)

\* The name=value pairs URLSearchParams holds for one entry.
QueryPairs(e) ==
  IF e.v.t = "array" THEN [i \in 1..Len(e.v.items) |-> <<e.k, "=", e.v.items[i]>>]
  ELSE <<(<<e.k, "=">> \o String(e.v))>>

RECURSIVE FlatPairs(_)
FlatPairs(entries) ==
  IF entries = <<>> THEN <<>> ELSE QueryPairs(entries[1]) \o FlatPairs(Tail(entries))

\* buildQueryString of src/data.js: entries in insertion order, not sorted.
buildQueryStringUnsorted(params) ==
  JoinSeqs(FlatPairs(SelectSeq(params, LAMBDA e : e.v # Undef /\ e.v # Null)), "&")

\* buildQueryString of the advanced variant: null and undefined dropped, the
\* entries sorted by name, arrays as repeated names.
buildQueryString(params) ==
  JoinSeqs(FlatPairs(SortEntries(SelectSeq(params, LAMBDA e : e.v # Undef /\ e.v # Null))), "&")

\* fullUrl as the endpoint callables compute it.
FullUrl(url, params) ==
  LET r == parseUrl(url, params)
      queryString == buildQueryString(r.remainingParams)
  IN IF queryString # <<>> THEN r.finalUrl \o <<"?">> \o queryString ELSE r.finalUrl

\* makeKey({name, method, fullUrl, params}); fullUrl = <<>> is the falsy "".
makeKey(name, method, fullUrl, params) ==
  IF fullUrl # <<>> THEN <<method, "::", name, "::">> \o fullUrl
  ELSE <<method, "::", name, "::">> \o stableStringify(params)

\* createCacheKey(name, params, meta) of src/data.js.
createCacheKey(name, params, meta) ==
  <<name, ":">> \o (IF meta # "" THEN <<meta, "|">> ELSE <<>>) \o stableStringify(params)

\* String.prototype.includes on atom sequences.
Includes(key, pattern) ==
  \E i \in 1..(Len(key) - Len(pattern) + 1) : SubSeq(key, i, i + Len(pattern) - 1) = pattern

\* ---------------------------------------------------------------- state
VARIABLES
  variant,      \* "advanced" (src/unnamed/part_000) or "basic" (src/data.js)
  now,          \* Date.now(), in ticks
  cacheStore,   \* the Map cacheStore: entries [key, value, expiry] in Map order
  lastOp,       \* history: the cache operation performed last
  insOrder,     \* history: for each stored key its last write [key, value, ttl, at],
                \* in the order cacheSet first wrote the keys
  anyRead,      \* history: a cache lookup has been made
  nops,         \* history: number of cache operations so far
  api,          \* the endpoint registry: name -> the registered endpoint
  reqs,         \* the network calls in flight: id -> request (the id is its controller)
  pendingRequests,    \* the Map pendingRequests: key -> id of the request whose promise it holds
  activeControllers,  \* the Map activeControllers: name -> set of controllers
  messageState,       \* [error, success]
  dataStore,          \* the Map dataStore: name -> last successful result
  loadingState,       \* [active, timer, isShowing]
  lastReg,      \* history: the registration attempted last, [name, method, threw]
  pager,        \* the getAll / getCursor call in progress: its locals and its log
  keyRun,       \* history: a call and a second call with its parameters reordered
  errorByPromise,  \* the WeakMap errorByPromise of the endpoint calls made through
                   \* withRetry and poll: promise -> error, or null
  retry,        \* the withRetry call in progress: its locals and its log
  hooks,        \* history: the loading hooks fired, and the record of the current burst
  poller,       \* the poll on an endpoint: its state object, its call in flight, its log
  icept,        \* a call made with an interceptor installed: the interceptor, the outcome
  debounce,     \* the loading signal with its clock: how long each request has been
                \* active, when the debounce timer is due
  lib,          \* the state of the lib.js variant (src/unnamed/part_002)
  callers       \* the application code awaiting endpoint calls: what each caller
                \* awaits, was given and saw of messageState

baseVars == <<variant, now, cacheStore>>
cacheHist == <<lastOp, insOrder, anyRead, nops>>
engineVars == <<api, reqs, pendingRequests, activeControllers, messageState, dataStore,
                loadingState>>
helperVars == <<errorByPromise, retry, hooks, poller>>
laterVars == <<icept, debounce, lib, callers>>
vars == <<baseVars, cacheHist, engineVars, lastReg, pager, keyRun, helperVars, laterVars>>
\* What the cache-store specification leaves alone.
cacheIdle == <<engineVars, lastReg, pager, keyRun, helperVars, laterVars>>
\* What the engine specification leaves alone.
engineIdle == <<cacheHist, lastReg, pager, keyRun, helperVars, laterVars>>

\* ---------------------------------------------------------- cache store
\* Map operations on a sequence of entries kept in insertion order.
MapHas(store, key) == \E i \in 1..Len(store) : store[i].key = key
MapGet(store, key) == store[CHOOSE i \in 1..Len(store) : store[i].key = key]
MapDelete(store, key) == SelectSeq(store, LAMBDA e : e.key # key)
\* Map.prototype.set: an existing key keeps its position, a new one goes last.
MapSet(store, key, item) ==
  IF MapHas(store, key)
  THEN [i \in 1..Len(store) |-> IF store[i].key = key THEN item ELSE store[i]]
  ELSE Append(store, item)
MapKeys(store) == {store[i].key : i \in 1..Len(store)}

\* cacheGet of the advanced variant: a miss for an absent or expired entry
\* (which is deleted), else the entry is moved to the freshest position.
cacheGet(store, key, t) ==
  IF ~MapHas(store, key) THEN [store |-> store, value |-> Null]
  ELSE LET item == MapGet(store, key)
       IN IF t > item.expiry THEN [store |-> MapDelete(store, key), value |-> Null]
          ELSE [store |-> MapSet(MapDelete(store, key), key, item), value |-> item.value]

\* getCache of src/data.js: the same without the move.
getCache(store, key, t) ==
  IF ~MapHas(store, key) THEN [store |-> store, value |-> Null]
  ELSE LET item == MapGet(store, key)
       IN IF t > item.expiry THEN [store |-> MapDelete(store, key), value |-> Null]
          ELSE [store |-> store, value |-> item.value]

\* A lookup that drops the entry it returns.
CacheLookupPurging(v, store, key, t) ==
  [store |-> MapDelete(store, key), value |-> getCache(store, key, t).value]
\* The lookup of the variant in use.
CacheLookup(v, store, key, t) ==
  IF v = "advanced" THEN cacheGet(store, key, t) ELSE getCache(store, key, t)

\* Mutant: the eviction step drops the newest entry instead of the oldest.
EvictNewest(store) ==
  IF Len(store) >= MaxSize /\ store # <<>> THEN SubSeq(store, 1, Len(store) - 1) ELSE store

\* The store after the eviction step of cacheSet / setCache.
EvictOldest(store) ==
  IF Len(store) >= MaxSize /\ store # <<>> THEN Tail(store) ELSE store
\* The same for a store of another capacity (CACHE_CONFIG.maxSize).
EvictOldestIn(store, maxSize) ==
  IF Len(store) >= maxSize /\ store # <<>> THEN Tail(store) ELSE store

\* Mutant: the expiry is the TTL alone, Date.now() forgotten.
cacheSetNoNow(store, key, value, ttl, t) ==
  MapSet(EvictOldest(store), key, [key |-> key, value |-> value, expiry |-> ttl])

\* cacheSet(key, value, ttl) at time t.
cacheSet(store, key, value, ttl, t) ==
  MapSet(EvictOldest(store), key, [key |-> key, value |-> value, expiry |-> t + ttl])

\* cacheSet(key, value, ttl) at time t, the capacity being maxSize.
cacheSetIn(store, key, value, ttl, t, maxSize) ==
  MapSet(EvictOldestIn(store, maxSize), key, [key |-> key, value |-> value, expiry |-> t + ttl])

\* A clearCache that ignores its pattern.
clearCacheAll(store, pattern) == <<>>
\* clearCache(pattern); the empty pattern is the falsy one.
clearCache(store, pattern) ==
  IF pattern = <<>> THEN <<>>
  ELSE SelectSeq(store, LAMBDA e : ~Includes(e.key, pattern))

\* ------------------------------------------------ the cache store alone
\* Templates /api/users and /api/docs/:id as segments.
UrlUsers == << [ph |-> FALSE, s |-> "/api/users"] >>
UrlDocs == << [ph |-> FALSE, s |-> "/api/docs/"], [ph |-> TRUE, s |-> "id"] >>

\* Request keys of GET calls, as the callables build them.
KeyList ==
  << makeKey("users", "GET", FullUrl(UrlUsers, <<>>), <<>>),
     makeKey("users", "GET", FullUrl(UrlUsers, <<[k |-> "a", v |-> Num("1")]>>), <<>>),
     makeKey("docs", "GET", FullUrl(UrlDocs, <<[k |-> "id", v |-> Num("1")]>>), <<>>),
     makeKey("docs", "GET", FullUrl(UrlDocs, <<[k |-> "id", v |-> Num("2")]>>), <<>>),
     makeKey("docs", "GET", FullUrl(UrlDocs, <<[k |-> "id", v |-> Num("1")], [k |-> "a", v |-> Num("1")]>>), <<>>) >>
CacheKeys == {KeyList[i] : i \in 1..(IF MaxSize + 1 < Len(KeyList) THEN MaxSize + 1 ELSE Len(KeyList))}
\* What is written: a value with its TTL in ticks.
CacheWrites == { [value |-> Num("1"), ttl |-> 1], [value |-> Num("2"), ttl |-> 2] }
ClearPatterns == { <<>>, <<"users">> }

\* messageState.error = null.
NoError == [message |-> ""]
\* No registration attempted yet.
NoReg == [name |-> "", method |-> "", threw |-> FALSE]
\* No getAll / getCursor call made yet.
NoPager == [fn |-> "none"]
\* No call recorded yet.
NoKeyRun == [stage |-> "none"]
\* No withRetry call made yet.
NoRetry == [stage |-> "none"]
\* No hook fired yet, no burst of loading begun.
NoBurst == [over |-> FALSE]
NoHooks == [log |-> <<>>, starts |-> 0, fired |-> FALSE, last |-> NoBurst]
\* No poll started yet.
NoPoll == [stage |-> "none"]
\* No call made with an interceptor yet.
NoIntercept == [stage |-> "none"]
\* The clocked loading signal at load: nothing active, no timer.
NoDebounce == [age |-> <<>>, due |-> 0 - 1, log |-> <<>>, starts |-> 0]
\* lib.js right after the module is loaded.
LibAtLoad == [calls |-> <<>>, fetches |-> <<>>, activeRequests |-> 0,
              data |-> Undef, error |-> Null, success |-> Null]
\* The module's registries right after the module is loaded.
EngineAtLoad ==
  /\ api = <<>>
  /\ reqs = <<>>
  /\ pendingRequests = <<>>
  /\ activeControllers = <<>>
  /\ messageState = [error |-> NoError, success |-> Null]
  /\ dataStore = <<>>
  /\ loadingState = [active |-> {}, timer |-> FALSE, isShowing |-> FALSE]
  /\ lastReg = NoReg
  /\ pager = NoPager
  /\ keyRun = NoKeyRun
  /\ errorByPromise = <<>>
  /\ retry = NoRetry
  /\ hooks = NoHooks
  /\ poller = NoPoll
  /\ icept = NoIntercept
  /\ debounce = NoDebounce
  /\ lib = LibAtLoad
  /\ callers = <<>>

NoOp == [op |-> "none", key |-> <<>>, time |-> 0, value |-> Null, ttl |-> 0,
         before |-> <<>>, order |-> <<>>]

InitCache ==
  /\ variant \in {"advanced", "basic"}
  /\ now = 0
  /\ cacheStore = <<>>
  /\ lastOp = NoOp
  /\ insOrder = <<>>
  /\ anyRead = FALSE
  /\ nops = 0
  /\ EngineAtLoad

\* The insertion order restricted to the keys still stored.
Surviving(order, store) == SelectSeq(order, LAMBDA w : w.key \in MapKeys(store))

\* A caller looks key up at the current time.
CacheGetOp(key) ==
  /\ nops < MaxOps
  /\ LET r == CacheLookup(variant, cacheStore, key, now)
     IN /\ cacheStore' = r.store
        /\ lastOp' = [op |-> "get", key |-> key, time |-> now, value |-> r.value, ttl |-> 0,
                      before |-> cacheStore, order |-> insOrder]
        /\ insOrder' = Surviving(insOrder, r.store)
  /\ anyRead' = TRUE
  /\ nops' = nops + 1
  /\ UNCHANGED <<variant, now>>
  /\ UNCHANGED cacheIdle

\* A completed request writes value under key with the given TTL.
CacheSetOp(key, w) ==
  /\ nops < MaxOps
  /\ cacheStore' = cacheSet(cacheStore, key, w.value, w.ttl, now)
  /\ lastOp' = [op |-> "set", key |-> key, time |-> now, value |-> w.value, ttl |-> w.ttl,
                before |-> cacheStore, order |-> insOrder]
  /\ insOrder' = LET kept == Surviving(insOrder, EvictOldest(cacheStore))
                     wr == [key |-> key, value |-> w.value, ttl |-> w.ttl, at |-> now]
                 IN MapSet(kept, key, wr)
  /\ nops' = nops + 1
  /\ UNCHANGED <<variant, now, anyRead>>
  /\ UNCHANGED cacheIdle

ClearCacheOp(pattern) ==
  /\ nops < MaxOps
  /\ cacheStore' = clearCache(cacheStore, pattern)
  /\ lastOp' = [op |-> "clear", key |-> pattern, time |-> now, value |-> Null, ttl |-> 0,
                before |-> cacheStore, order |-> insOrder]
  /\ insOrder' = Surviving(insOrder, cacheStore')
  /\ nops' = nops + 1
  /\ UNCHANGED <<variant, now, anyRead>>
  /\ UNCHANGED cacheIdle

\* Time passes.
Tick ==
  /\ now < MaxTime
  /\ cacheStore # <<>> \/ reqs # <<>>
  /\ now' = now + 1
  /\ UNCHANGED <<variant, cacheStore, lastOp, insOrder, anyRead, nops>>
  /\ UNCHANGED cacheIdle

NextCache ==
  \/ \E key \in CacheKeys : CacheGetOp(key)
  \/ \E key \in CacheKeys, w \in CacheWrites : CacheSetOp(key, w)
  \/ \E pattern \in ClearPatterns : ClearCacheOp(pattern)
  \/ Tick

SpecCache == InitCache /\ [][NextCache]_vars

\* ---------------------------------------------- claims on the cache store
\* The last write of the key looked up last, when the key was stored.
LastWrite == MapGet(lastOp.order, lastOp.key)
LookedUpStored == lastOp.op = "get" /\ MapHas(lastOp.before, lastOp.key)

\* C4: a value written at time s with TTL t is returned by every lookup of its
\* key made strictly before s+t while it is stored, and a lookup made strictly
\* after s+t is a miss that removes the entry.
C4_CacheTTL ==
  LookedUpStored =>
    /\ lastOp.time < LastWrite.at + LastWrite.ttl => lastOp.value = LastWrite.value
    /\ lastOp.time > LastWrite.at + LastWrite.ttl =>
         lastOp.value = Null /\ ~MapHas(cacheStore, lastOp.key)

\* C4 witness: a stored entry is looked up after its expiry and removed.
C4_Witness ==
  /\ LookedUpStored
  /\ lastOp.time > LastWrite.at + LastWrite.ttl
  /\ ~MapHas(cacheStore, lastOp.key)

\* C5: the store never holds more than maxSize entries; with no lookups made,
\* writing a key that is not stored into a full store evicts exactly the
\* earliest-inserted stored key, and writing into a store that is not full
\* evicts nothing.
C5_CacheBound ==
  /\ Len(cacheStore) <= MaxSize
  /\ (lastOp.op = "set" /\ ~anyRead /\ ~MapHas(lastOp.before, lastOp.key)) =>
       IF Len(lastOp.before) >= MaxSize
       THEN /\ MapKeys(lastOp.before) \ MapKeys(cacheStore) = {lastOp.order[1].key}
            /\ Len(cacheStore) = MaxSize
       ELSE MapKeys(lastOp.before) \subseteq MapKeys(cacheStore)

\* C5 witness: a new key was written into a full store with no lookups made.
C5_Witness ==
  /\ lastOp.op = "set" /\ ~anyRead
  /\ ~MapHas(lastOp.before, lastOp.key)
  /\ Len(lastOp.before) >= MaxSize
  /\ MapHas(cacheStore, lastOp.key)

\* ------------------------------------------------- response normalizer
Bool(b) == [t |-> "boolean", s |-> IF b THEN "true" ELSE "false", items |-> <<>>]
\* A parsed JSON object: its fields as a sequence of [k, v] entries.
Obj(fields) == [t |-> "object", fields |-> fields]
\* data[field] of a parsed payload (undefined on anything but an object).
Field(data, k) == IF data.t = "object" THEN ObjGet(data.fields, k) ELSE Undef
\* JavaScript truthiness.
Truthy(v) ==
  CASE v.t \in {"undefined", "null"} -> FALSE
    [] v.t = "boolean" -> v.s = "true"
    [] v.t = "number" -> v.s \notin {"0", "NaN"}
    [] v.t = "string" -> v.s # ""
    [] OTHER -> TRUE
\* typeof data === "object" for a truthy data.
IsObjectLike(data) == data.t \in {"object", "array"}

\* A response of the network: fetch rejects, or resolves with a response whose
\* status is OK or not, possibly 204, with a content type that is JSON or not
\* and a body text that parses to json or is not valid JSON.
Response(ok, noContent, ctJson, valid, json) ==
  [rejects |-> FALSE, ok |-> ok, noContent |-> noContent, ctJson |-> ctJson,
   valid |-> valid, json |-> json]
Rejection == [rejects |-> TRUE, ok |-> FALSE, noContent |-> FALSE, ctJson |-> FALSE,
              valid |-> FALSE, json |-> Null]
\* The raw text of a body that is not valid JSON.
RawText == Str("<html>")

\* parseResponse(response, parse) for parse undefined, "json" or "text" and a
\* non-empty body: [threw, data].
parseResponse(response, parse) ==
  IF response.noContent THEN [threw |-> FALSE, data |-> Null]
  ELSE IF parse = "text" THEN [threw |-> FALSE, data |-> RawText]
  ELSE IF parse = "json" \/ response.ctJson
       THEN [threw |-> ~response.valid, data |-> response.json]
  ELSE IF response.valid THEN [threw |-> FALSE, data |-> response.json]
  ELSE [threw |-> FALSE, data |-> RawText]

\* response.json() of src/data.js: throws on a body that is not JSON, an empty
\* one included.
responseJson(response) ==
  [threw |-> response.noContent \/ ~response.valid, data |-> response.json]

\* Mutant: isError looks at the HTTP status only.
isErrorStatusOnly(response, data) == ~response.ok

isError(response, data) ==
  \/ ~response.ok
  \/ /\ Truthy(data) /\ IsObjectLike(data)
     /\ \/ Truthy(Field(data, "error"))
        \/ Field(data, "success") = Bool(FALSE)
        \/ Field(data, "result") = Bool(FALSE)
        \/ Field(data, "status") \in {Str("error"), Str("fail")}
        \/ /\ Truthy(Field(data, "code"))
           /\ Field(data, "code") \notin {Str("SUCCESS"), Str("success"), Num("200"), Num("0")}

\* The envelope fields extractData probes, in priority order.
ExtractFields == <<"data", "result", "results", "items", "records", "content", "rows",
                   "list", "payload", "body">>

RECURSIVE ExtractFrom(_, _)
ExtractFrom(data, fields) ==
  IF fields = <<>>
  THEN IF Truthy(Field(Field(data, "response"), "data"))
       THEN Field(Field(data, "response"), "data") ELSE data
  ELSE IF Field(data, fields[1]) # Undef THEN Field(data, fields[1])
  ELSE ExtractFrom(data, Tail(fields))

extractData(data) ==
  IF data.t = "array" THEN data
  ELSE IF ~Truthy(data) \/ data.t # "object" THEN data
  ELSE ExtractFrom(data, ExtractFields)

\* applyExtract(json, extract) for extract undefined or "raw".
applyExtract(json, extract) == IF extract = "raw" THEN json ELSE extractData(json)

\* getErrorMessage(data), as text.
getErrorMessage(data) ==
  IF ~Truthy(data) THEN "Request failed"
  ELSE IF data.t = "string" THEN data.s
  ELSE IF Field(data, "error").t = "string" THEN Field(data, "error").s
  ELSE IF Truthy(Field(Field(data, "error"), "message")) THEN Field(Field(data, "error"), "message").s
  ELSE IF Truthy(Field(data, "message")) THEN Field(data, "message").s
  ELSE IF Truthy(Field(data, "msg")) THEN Field(data, "msg").s
  ELSE IF Field(data, "errors").t = "array" /\ Field(data, "errors").items # <<>>
       THEN "errors"
  ELSE "Request failed"

\* ---------------------------------------------------- endpoint registry
\* An option that is not given.
Absent == "absent"
\* Options: cache, parse, extract and dedupe ("on" / "off") are texts, timeout
\* and cacheTTL numbers of ticks, negative when not given, cacheKey a key.
NoOptions == [cache |-> Absent, swr |-> FALSE, dedupe |-> Absent, parse |-> Absent,
              extract |-> Absent, timeout |-> 0 - 1, cacheTTL |-> 0 - 1,
              cacheKey |-> Absent]
\* opt.x ?? fallback
OrElse(x, fallback) == IF x = Absent THEN fallback ELSE x
OrElseNum(x, fallback) == IF x < 0 THEN fallback ELSE x

\* get(name, url, options): what the registered callable closes over.  The
\* basic variant reads only cache and swr from the options.
get(v, url, options) ==
  [method |-> "GET", url |-> url,
   useCache |-> options.cache # "no-cache",
   swr |-> options.swr,
   dedupe |-> IF v = "advanced" THEN (OrElse(options.dedupe, "on") = "on") ELSE TRUE,
   parse |-> IF v = "advanced" THEN options.parse ELSE "json",
   extract |-> IF v = "advanced" THEN options.extract ELSE Absent,
   timeout |-> IF v = "advanced" THEN OrElseNum(options.timeout, DefaultTimeout) ELSE DefaultTimeout,
   cacheTTL |-> IF v = "advanced" THEN OrElseNum(options.cacheTTL, CacheTtl) ELSE CacheTtl]

\* Mutant: write methods registered with de-duplication on.
makeWriteMethodDeduped(v, method, url, options) ==
  [method |-> method, url |-> url, useCache |-> FALSE, swr |-> FALSE, dedupe |-> TRUE,
   parse |-> IF v = "advanced" THEN options.parse ELSE "json",
   extract |-> IF v = "advanced" THEN options.extract ELSE Absent,
   timeout |-> IF v = "advanced" THEN OrElseNum(options.timeout, DefaultTimeout) ELSE DefaultTimeout,
   cacheTTL |-> CacheTtl]

\* post / put / patch (name, url, defineOptions).
makeWriteMethod(v, method, url, options) ==
  [method |-> method, url |-> url, useCache |-> FALSE, swr |-> FALSE, dedupe |-> FALSE,
   parse |-> IF v = "advanced" THEN options.parse ELSE "json",
   extract |-> IF v = "advanced" THEN options.extract ELSE Absent,
   timeout |-> IF v = "advanced" THEN OrElseNum(options.timeout, DefaultTimeout) ELSE DefaultTimeout,
   cacheTTL |-> CacheTtl]

\* A del that registers its endpoint with the cache on, as get does.
delCached(v, url, options) ==
  [get(v, url, options) EXCEPT !.method = "DELETE", !.swr = FALSE, !.cacheTTL = CacheTtl]

\* del(name, url, defineOptions).
del(v, url, options) ==
  [method |-> "DELETE", url |-> url, useCache |-> FALSE, swr |-> FALSE,
   dedupe |-> IF v = "advanced" THEN (OrElse(options.dedupe, "on") = "on") ELSE TRUE,
   parse |-> IF v = "advanced" THEN options.parse ELSE "json",
   extract |-> IF v = "advanced" THEN options.extract ELSE Absent,
   timeout |-> IF v = "advanced" THEN OrElseNum(options.timeout, DefaultTimeout) ELSE DefaultTimeout,
   cacheTTL |-> CacheTtl]

\* Mutant: a plain assignment api[name] = fn, which overwrites.
defineEndpointOverwrite(registry, name, ep) ==
  [registry |-> (name :> ep) @@ [n \in DOMAIN registry \ {name} |-> registry[n]],
   threw |-> FALSE]

\* defineEndpoint: Object.defineProperty with writable false (and configurable
\* false by default) throws a TypeError when the name is already defined.
defineEndpoint(registry, name, ep) ==
  IF name \in DOMAIN registry THEN [registry |-> registry, threw |-> TRUE]
  ELSE [registry |-> (name :> ep) @@ registry, threw |-> FALSE]

\* The registrations an application may make: name, registering function and
\* options.
Registrations(v) ==
  { [name |-> "users", ep |-> get(v, UrlUsers, NoOptions)],
    [name |-> "users", ep |-> get(v, UrlUsers, [NoOptions EXCEPT !.swr = TRUE, !.cacheTTL = 1])],
    [name |-> "docs", ep |-> del(v, UrlDocs, NoOptions)],
    [name |-> "docs", ep |-> makeWriteMethod(v, "POST", UrlDocs, NoOptions)] }

\* The parameter objects callers pass.
Pab == << [k |-> "a", v |-> Num("1")], [k |-> "b", v |-> Num("2")] >>
Pba == << [k |-> "b", v |-> Num("2")], [k |-> "a", v |-> Num("1")] >>
Pid == << [k |-> "id", v |-> Num("1")] >>
ParamsOf(name) == IF name = "users" THEN {Pab, Pba} ELSE {Pid}

\* The request key of a call: the cacheKey the GET and DELETE callables pass to
\* request, the key request computes itself for a write callable, and
\* createCacheKey in the basic variant.
RequestKey(v, name, ep, params) ==
  IF v = "basic" THEN createCacheKey(name, params, ep.method)
  ELSE IF ep.method \in {"GET", "DELETE"}
       THEN makeKey(name, ep.method, FullUrl(ep.url, params), params)
  ELSE makeKey(name, ep.method, <<>>, params)

\* ------------------------------------------------------- request engine
Names == {"users", "docs"}
\* Removing a key from a Map.
FnRemove(f, k) == [x \in DOMAIN f \ {k} |-> f[x]]
\* Map.set on a Map modelled as a function.
FnSet(f, k, val) == (k :> val) @@ FnRemove(f, k)

FreeIds == (1..MaxReqs) \ DOMAIN reqs
NewId == CHOOSE i \in FreeIds : \A j \in FreeIds : i <= j

addController(registry, name, controller) ==
  IF name \in DOMAIN registry THEN [registry EXCEPT ![name] = @ \cup {controller}]
  ELSE FnSet(registry, name, {controller})

\* Mutant: the cleanup of a call drops the whole set of its name.
removeControllerByName(registry, name, controller) == FnRemove(registry, name)

removeController(registry, name, controller) ==
  IF name \notin DOMAIN registry THEN registry
  ELSE IF registry[name] \ {controller} = {} THEN FnRemove(registry, name)
  ELSE [registry EXCEPT ![name] = @ \ {controller}]

\* startLoading(id): the id joins the active set and the debounce timer is re-armed.
startLoading(ls, id) == [ls EXCEPT !.active = @ \cup {id}, !.timer = TRUE]

\* An endLoading that forgets to delete the id.
endLoadingLeak(ls, id) == [ls EXCEPT !.timer = FALSE]

\* endLoading(id): when the active set empties the timer is cleared and the
\* signal, if shown, is hidden (hooks.end).
endLoading(ls, id) ==
  IF ls.active \ {id} = {} THEN [active |-> {}, timer |-> FALSE, isShowing |-> FALSE]
  ELSE [ls EXCEPT !.active = @ \ {id}]

\* The responses the network may give.
RespOk1 == Response(TRUE, FALSE, TRUE, TRUE, Obj(<<[k |-> "data", v |-> Num("1")]>>))
RespOkMsg2 == Response(TRUE, FALSE, TRUE, TRUE,
                       Obj(<<[k |-> "data", v |-> Num("2")], [k |-> "message", v |-> Str("saved")]>>))
RespHttp == Response(FALSE, FALSE, TRUE, TRUE, Obj(<<[k |-> "message", v |-> Str("boom")]>>))
RespApp == Response(TRUE, FALSE, TRUE, TRUE,
                    Obj(<<[k |-> "success", v |-> Bool(FALSE)], [k |-> "msg", v |-> Str("denied")]>>))
RespBad == Response(TRUE, FALSE, TRUE, FALSE, Null)
Responses == {RespOk1, RespOkMsg2, RespHttp, RespApp, RespBad, Rejection}

\* What the async body of request computes from the outcome of fn(signal):
\* whether it ends in the catch block, the result, the error's message and the
\* parsed payload.
Conclude(v, req, response) ==
  IF response.rejects
  THEN [failed |-> TRUE, result |-> Null, data |-> Null,
        message |-> IF req.aborted THEN "AbortError" ELSE "TypeError"]
  ELSE LET parsed == IF v = "advanced" THEN parseResponse(response, req.parse)
                     ELSE responseJson(response)
       IN IF parsed.threw
          THEN [failed |-> TRUE, result |-> Null, data |-> Null, message |-> "SyntaxError"]
          ELSE IF isError(response, parsed.data)
          THEN [failed |-> TRUE, result |-> Null, data |-> parsed.data,
                message |-> getErrorMessage(parsed.data)]
          ELSE [failed |-> FALSE, result |-> applyExtract(parsed.data, req.extract),
                data |-> parsed.data, message |-> ""]

\* The request a dispatch or a background refresh puts in flight.
NewReq(name, ep, key, bg) ==
  [name |-> name, key |-> key, method |-> ep.method, useCache |-> ep.useCache,
   dedupe |-> ep.dedupe, parse |-> ep.parse, extract |-> ep.extract,
   cacheTTL |-> ep.cacheTTL, deadline |-> now + ep.timeout, bg |-> bg,
   aborted |-> FALSE, byAbort |-> FALSE]

\* The foreground requests in flight under a key.
InFlight(key) == {r \in DOMAIN reqs : ~reqs[r].bg /\ reqs[r].key = key}

\* The variants the engine is checked for.
EngineVariants == {"advanced", "basic"}

Init ==
  /\ variant \in EngineVariants
  /\ now = 0
  /\ cacheStore = <<>>
  /\ lastOp = NoOp /\ insOrder = <<>> /\ anyRead = FALSE /\ nops = 0
  /\ EngineAtLoad

\* get / post / del (name, url, options) is called by the application.
Register(reg) ==
  /\ api' = defineEndpoint(api, reg.name, reg.ep).registry
  /\ UNCHANGED <<baseVars, reqs, pendingRequests, activeControllers, messageState,
                 dataStore, loadingState>>
  /\ UNCHANGED engineIdle

\* How request answers a call, no before-interceptor being installed: from the
\* cache, with the pending promise of its key, or with a network call of its own.
CallVia(name, params) ==
  LET ep == api[name]
      key == RequestKey(variant, name, ep, params)
  IN IF ep.useCache /\ CacheLookup(variant, cacheStore, key, now).value # Null THEN "cache"
     ELSE IF ep.dedupe /\ key \in DOMAIN pendingRequests THEN "join"
     ELSE "own"

\* api[name](params): the callable and the synchronous part of request, up to
\* the return of the cached value, of the pending promise or of the new promise
\* with its fetch issued.
request(name, params) ==
  /\ name \in DOMAIN api
  /\ LET ep == api[name]
         key == RequestKey(variant, name, ep, params)
         via == CallVia(name, params)
     IN /\ messageState' = [error |-> NoError, success |-> Null]
        /\ cacheStore' = IF ep.useCache THEN CacheLookup(variant, cacheStore, key, now).store
                         ELSE cacheStore
        /\ IF via = "cache"
           THEN /\ IF ep.swr
                   THEN /\ FreeIds # {}
                        /\ reqs' = FnSet(reqs, NewId, NewReq(name, ep, key, TRUE))
                   ELSE reqs' = reqs
                /\ UNCHANGED <<pendingRequests, activeControllers, loadingState>>
           ELSE IF via = "join"
           THEN UNCHANGED <<reqs, pendingRequests, activeControllers, loadingState>>
           ELSE /\ FreeIds # {}
                /\ reqs' = FnSet(reqs, NewId, NewReq(name, ep, key, FALSE))
                /\ activeControllers' = addController(activeControllers, name, NewId)
                /\ loadingState' = startLoading(loadingState, NewId)
                /\ pendingRequests' = IF ep.dedupe THEN FnSet(pendingRequests, key, NewId)
                                      ELSE pendingRequests
  /\ UNCHANGED <<variant, now, api, dataStore>>

\* The application calls api[name](params).
Call(name, params) == request(name, params) /\ UNCHANGED engineIdle

\* Mutant: a request that stores its result in dataStore whatever the outcome.
SettleStoring(r, response) ==
  /\ r \in DOMAIN reqs /\ ~reqs[r].bg
  /\ reqs[r].aborted => response = Rejection
  /\ LET req == reqs[r]
         c == Conclude(variant, req, response)
     IN /\ dataStore' = FnSet(dataStore, req.name, c.result)
        /\ cacheStore' = IF ~c.failed /\ req.useCache
                         THEN cacheSet(cacheStore, req.key, c.result, req.cacheTTL, now)
                         ELSE cacheStore
        /\ messageState' =
             IF c.failed THEN [messageState EXCEPT !.error = [message |-> c.message]]
             ELSE IF Truthy(c.data) /\ IsObjectLike(c.data) /\ Truthy(Field(c.data, "message"))
             THEN [messageState EXCEPT !.success = Field(c.data, "message")]
             ELSE messageState
        /\ activeControllers' = removeController(activeControllers, req.name, r)
        /\ pendingRequests' = IF req.dedupe THEN FnRemove(pendingRequests, req.key)
                              ELSE pendingRequests
        /\ loadingState' = endLoading(loadingState, r)
        /\ reqs' = FnRemove(reqs, r)
  /\ UNCHANGED <<variant, now, api>>
  /\ UNCHANGED engineIdle

\* The network answers a foreground request (an aborted one is rejected), and
\* the rest of the async body of request runs: try, catch and finally.
\* The entry request adds to errorByPromise is read by withRetry and poll
\* alone; it is modelled where they are (RecordOutcome), not here.
Settle(r, response) ==
  /\ r \in DOMAIN reqs /\ ~reqs[r].bg
  /\ reqs[r].aborted => response = Rejection
  /\ LET req == reqs[r]
         c == Conclude(variant, req, response)
     IN /\ dataStore' = IF c.failed THEN dataStore ELSE FnSet(dataStore, req.name, c.result)
        /\ cacheStore' = IF ~c.failed /\ req.useCache
                         THEN cacheSet(cacheStore, req.key, c.result, req.cacheTTL, now)
                         ELSE cacheStore
        /\ messageState' =
             IF c.failed THEN [messageState EXCEPT !.error = [message |-> c.message]]
             ELSE IF Truthy(c.data) /\ IsObjectLike(c.data) /\ Truthy(Field(c.data, "message"))
             THEN [messageState EXCEPT !.success = Field(c.data, "message")]
             ELSE messageState
        /\ activeControllers' = removeController(activeControllers, req.name, r)
        /\ pendingRequests' = IF req.dedupe THEN FnRemove(pendingRequests, req.key)
                              ELSE pendingRequests
        /\ loadingState' = endLoading(loadingState, r)
        /\ reqs' = FnRemove(reqs, r)
  /\ UNCHANGED <<variant, now, api>>
  /\ UNCHANGED engineIdle

\* A background refresh that writes its outcome to the cache whatever it is.
fetchInBackgroundAlways(store, req, c, t) ==
  cacheSet(store, req.key, c.result, req.cacheTTL, t)
\* The cache after fetchInBackground: written on success only.
fetchInBackground(store, req, c, t) ==
  IF c.failed THEN store ELSE cacheSet(store, req.key, c.result, req.cacheTTL, t)

\* The network answers a background refresh: fetchInBackground after its await.
SettleBackground(r, response) ==
  /\ r \in DOMAIN reqs /\ reqs[r].bg
  /\ reqs[r].aborted => response = Rejection
  /\ LET req == reqs[r]
         c == Conclude(variant, req, response)
     IN /\ dataStore' = IF c.failed THEN dataStore ELSE FnSet(dataStore, req.name, c.result)
        /\ cacheStore' = fetchInBackground(cacheStore, req, c, now)
        /\ reqs' = FnRemove(reqs, r)
  /\ UNCHANGED <<variant, now, api, pendingRequests, activeControllers, messageState,
                 loadingState>>
  /\ UNCHANGED engineIdle

\* A timer that fires one tick after its time.
TimeoutLate(r) ==
  /\ r \in DOMAIN reqs /\ now > reqs[r].deadline /\ ~reqs[r].aborted
  /\ reqs' = [reqs EXCEPT ![r].aborted = TRUE]
  /\ UNCHANGED <<baseVars, api, pendingRequests, activeControllers, messageState,
                 dataStore, loadingState>>
  /\ UNCHANGED engineIdle

\* The timeout timer of a request fires: controller.abort().
Timeout(r) ==
  /\ r \in DOMAIN reqs /\ now >= reqs[r].deadline /\ ~reqs[r].aborted
  /\ reqs' = [reqs EXCEPT ![r].aborted = TRUE]
  /\ UNCHANGED <<baseVars, api, pendingRequests, activeControllers, messageState,
                 dataStore, loadingState>>
  /\ UNCHANGED engineIdle

\* The controllers registered under a name.
AbortTargets(name) ==
  IF name \in DOMAIN activeControllers THEN activeControllers[name] ELSE {}

\* Mutant: abort(name) aborts only the controller registered first.
abortFirstOnly(targets) ==
  IF targets = {} THEN {} ELSE {CHOOSE c \in targets : \A d \in targets : c <= d}

\* abort(name): every controller of the set is aborted.
abort(targets) == targets

\* abort(name) is called by the application.
Abort(name) ==
  /\ reqs' = [r \in DOMAIN reqs |->
               IF r \in abort(AbortTargets(name))
               THEN [reqs[r] EXCEPT !.aborted = TRUE, !.byAbort = TRUE] ELSE reqs[r]]
  /\ activeControllers' = FnRemove(activeControllers, name)
  /\ UNCHANGED <<baseVars, api, pendingRequests, messageState, dataStore, loadingState>>
  /\ UNCHANGED engineIdle

\* abortAll() is called by the application.
AbortAll ==
  /\ reqs' = [r \in DOMAIN reqs |->
               IF \E n \in DOMAIN activeControllers : r \in activeControllers[n]
               THEN [reqs[r] EXCEPT !.aborted = TRUE, !.byAbort = TRUE] ELSE reqs[r]]
  /\ activeControllers' = <<>>
  /\ UNCHANGED <<baseVars, api, pendingRequests, messageState, dataStore, loadingState>>
  /\ UNCHANGED engineIdle

\* clearCache(pattern) is called by the application.
ClearCache(pattern) ==
  /\ cacheStore' = clearCache(cacheStore, pattern)
  /\ UNCHANGED <<variant, now, api, reqs, pendingRequests, activeControllers, messageState,
                 dataStore, loadingState>>
  /\ UNCHANGED engineIdle

Next ==
  \/ \E reg \in Registrations(variant) : Register(reg)
  \/ \E name \in Names : \E params \in ParamsOf(name) : Call(name, params)
  \/ \E r \in 1..MaxReqs, response \in Responses : Settle(r, response)
  \/ \E r \in 1..MaxReqs, response \in Responses : SettleBackground(r, response)
  \/ \E r \in 1..MaxReqs : Timeout(r)
  \/ \E name \in Names : Abort(name)
  \/ AbortAll
  \/ \E pattern \in ClearPatterns : ClearCache(pattern)
  \/ Tick

Spec == Init /\ [][Next]_vars

\* ----------------------------------------------- engine: claims C1 - C3, C7
\* The request key of a call of a registered endpoint.
KeyOf(name, params) == RequestKey(variant, name, api[name], params)

\* C1: a call to an endpoint with de-duplication enabled, made while a call
\* with the same request key is still in flight, is joined to that call: it
\* gets the pending promise (hence the same value) and no further network call
\* is issued for the key.
C1_OneFetchPerKey ==
  [][\A name \in Names : \A params \in ParamsOf(name) :
       (/\ name \in DOMAIN api
        /\ api[name].dedupe
        /\ InFlight(KeyOf(name, params)) # {}
        /\ Call(name, params))
       => (CallVia(name, params) = "join" /\ reqs' = reqs)]_vars

\* The failure a response is, by the taxonomy: NetworkFailure (fetch rejects),
\* HTTPError (status not OK), ParseFailure (JSON demanded, body not JSON) or
\* ApplicationError (payload marked as an error); "none" otherwise.
FailureKind(response) ==
  IF response.rejects THEN "NetworkFailure"
  ELSE IF ~response.ok THEN "HTTPError"
  ELSE IF response.ctJson /\ ~response.valid /\ ~response.noContent THEN "ParseFailure"
  ELSE IF response.json.t = "object" /\ Field(response.json, "success") = Bool(FALSE)
       THEN "ApplicationError"
  ELSE "none"

\* The Error object each failure is caught as, by its message.
ErrorOf(req, response) ==
  CASE FailureKind(response) = "NetworkFailure" ->
         [message |-> IF req.aborted THEN "AbortError" ELSE "TypeError"]
    [] FailureKind(response) = "HTTPError" -> [message |-> "boom"]
    [] FailureKind(response) = "ParseFailure" -> [message |-> "SyntaxError"]
    [] FailureKind(response) = "ApplicationError" -> [message |-> "denied"]
    [] OTHER -> NoError

\* C2: a call whose outcome is a NetworkFailure (abort and timeout included),
\* an HTTPError, an ApplicationError or a ParseFailure resolves to null (the
\* catch block returns, nothing is thrown), and at its conclusion
\* messageState.error is that call's error; nothing is stored for it.
C2_FailureIsNull ==
  [][\A r \in 1..MaxReqs : \A response \in Responses :
       (/\ r \in DOMAIN reqs
        /\ FailureKind(response) # "none"
        /\ Settle(r, response))
       => (/\ Conclude(variant, reqs[r], response).failed
           /\ Conclude(variant, reqs[r], response).result = Null
           /\ messageState'.error = ErrorOf(reqs[r], response)
           /\ messageState'.error # NoError
           /\ dataStore' = dataStore
           /\ cacheStore' = cacheStore)]_vars

\* A call has just failed with an ApplicationError, nothing else in flight.
C2_Witness ==
  /\ messageState.error = [message |-> "denied"]
  /\ reqs = <<>>
  /\ dataStore = <<>>

\* The write requests (POST) in flight.
Writes == {r \in DOMAIN reqs : reqs[r].method = "POST"}

\* C3: a write call is never served from the cache nor joined to a pending
\* promise, each one issues a network call of its own, and a write leaves no
\* cache entry and no pending-promise entry: N concurrent write calls are N
\* network calls, each settled by its own response.
C3_WritesIndependent ==
  /\ [][\A name \in Names : \A params \in ParamsOf(name) :
          (/\ name \in DOMAIN api
           /\ api[name].method = "POST"
           /\ Call(name, params))
          => (/\ CallVia(name, params) = "own"
              /\ DOMAIN reqs' = DOMAIN reqs \cup {NewId}
              /\ NewId \notin DOMAIN reqs
              /\ Cardinality(Writes') = Cardinality(Writes) + 1
              /\ cacheStore' = cacheStore
              /\ pendingRequests' = pendingRequests)]_vars
  /\ [][\A r \in 1..MaxReqs : \A response \in Responses :
          (/\ r \in DOMAIN reqs
           /\ reqs[r].method = "POST"
           /\ Settle(r, response))
          => (/\ cacheStore' = cacheStore
              /\ pendingRequests' = pendingRequests
              /\ reqs' = FnRemove(reqs, r))]_vars
  /\ [](\A r \in Writes :
          /\ ~MapHas(cacheStore, reqs[r].key)
          /\ reqs[r].key \notin DOMAIN pendingRequests)

\* Two write calls with the same endpoint and parameters are in flight at once.
C3_Witness ==
  \E r1, r2 \in Writes : r1 # r2 /\ reqs[r1].key = reqs[r2].key /\ reqs[r1].name = reqs[r2].name

\* The foreground calls of a name that are in flight.
CallsOf(name) == {r \in DOMAIN reqs : ~reqs[r].bg /\ reqs[r].name = name}

\* C7: abort(name) aborts every call of the name that is in flight, so that each
\* resolves as a failure (null), touches no request of another name, and leaves
\* no entry for the name in activeControllers; the settling of an aborted call
\* puts none back, the registry holding only calls that are in flight and were
\* not aborted by abort.
C7_AbortByName ==
  /\ [][\A name \in Names :
          Abort(name)
          => (/\ \A r \in CallsOf(name) : reqs'[r].aborted
              /\ \A r \in DOMAIN reqs : reqs[r].name # name => reqs'[r] = reqs[r]
              /\ name \notin DOMAIN activeControllers')]_vars
  /\ [][\A r \in 1..MaxReqs : \A response \in Responses :
          (/\ r \in DOMAIN reqs
           /\ reqs[r].byAbort
           /\ Settle(r, response))
          => (/\ response = Rejection
              /\ Conclude(variant, reqs[r], response).result = Null
              /\ messageState'.error = [message |-> "AbortError"]
              /\ activeControllers' = activeControllers)]_vars
  /\ [](\A name \in DOMAIN activeControllers :
          /\ activeControllers[name] # {}
          /\ activeControllers[name] = {r \in CallsOf(name) : ~reqs[r].byAbort})

\* abort(name) has aborted two calls in flight, and the registry has no entry
\* for the name.
C7_Witness ==
  \E name \in Names :
    /\ Cardinality({r \in CallsOf(name) : reqs[r].byAbort}) = 2
    /\ name \notin DOMAIN activeControllers

\* ------------------------------------------------ defaults of get and del
\* The endpoint was registered by get, or by del, with no options.
DefaultGet(name) == name \in DOMAIN api /\ api[name] = get(variant, UrlUsers, NoOptions)
DefaultDel(name) == name \in DOMAIN api /\ api[name] = del(variant, UrlDocs, NoOptions)
\* The cache holds an unexpired value under the key.
Fresh(key) ==
  /\ MapHas(cacheStore, key)
  /\ now <= MapGet(cacheStore, key).expiry
  /\ MapGet(cacheStore, key).value # Null

CallsForKey(key) == {r \in DOMAIN reqs : reqs[r].key = key}

\* C16: for an endpoint with de-duplication on (cache and swr possibly on as
\* well) at most one network call per request key is in flight at any time.
C16_OneCallPerKey ==
  \A r \in DOMAIN reqs : reqs[r].dedupe => Cardinality(CallsForKey(reqs[r].key)) <= 1

\* C17: a cache hit on an swr endpoint answers from the cache and starts a
\* background call, leaving pendingRequests, the controllers and the loading
\* state alone; a background call that succeeds replaces the cache entry of its
\* key by the fresh result, which the next hit returns; one that fails leaves
\* the cache and dataStore as they were; neither touches messageState,
\* pendingRequests, the controllers or the loading state.
C17_SwrIsSilent ==
  /\ [][\A name \in Names : \A params \in ParamsOf(name) :
          (/\ name \in DOMAIN api
           /\ api[name].swr
           /\ CallVia(name, params) = "cache"
           /\ Call(name, params))
          => (/\ CacheLookup(variant, cacheStore, KeyOf(name, params), now).value # Null
              /\ DOMAIN reqs' = DOMAIN reqs \cup {NewId}
              /\ reqs'[NewId].bg /\ reqs'[NewId].key = KeyOf(name, params)
              /\ \A r \in DOMAIN reqs : reqs'[r] = reqs[r]
              /\ UNCHANGED <<pendingRequests, activeControllers, loadingState, dataStore>>
              /\ \A i \in 1..Len(cacheStore) : \E k \in 1..Len(cacheStore') :
                   cacheStore'[k] = cacheStore[i])]_vars
  /\ [][\A r \in 1..MaxReqs : \A response \in Responses :
          (/\ r \in DOMAIN reqs
           /\ reqs[r].bg
           /\ SettleBackground(r, response))
          => (/\ UNCHANGED <<messageState, pendingRequests, activeControllers, loadingState>>
              /\ \A q \in DOMAIN reqs \ {r} : q \in DOMAIN reqs' /\ reqs'[q] = reqs[q]
              /\ IF FailureKind(response) = "none"
                 THEN /\ MapHas(cacheStore', reqs[r].key)
                      /\ MapGet(cacheStore', reqs[r].key).value
                           = Conclude(variant, reqs[r], response).result
                      /\ CacheLookup(variant, cacheStore', reqs[r].key, now).value
                           = Conclude(variant, reqs[r], response).result
                 ELSE UNCHANGED <<cacheStore, dataStore>>)]_vars

\* A background refresh has replaced the cached value 1 by the fresh value 2
\* with nothing else in flight and no message set.
C17_Witness ==
  /\ "users" \in DOMAIN api /\ api["users"].swr
  /\ reqs = <<>>
  /\ Len(cacheStore) = 1 /\ cacheStore[1].value = Num("2")
  /\ messageState = [error |-> NoError, success |-> Null]
  /\ now = 1 /\ cacheStore[1].expiry = 2

\* ------------------------------------------------------------- timeouts
\* The engine with a clock that runs on: timers fire when they are due, the
\* network rejects an aborted operation, and otherwise may never answer.
TimeoutRegistrations(v) ==
  { [name |-> "users", ep |-> get(v, UrlUsers, NoOptions)],
    [name |-> "docs", ep |-> makeWriteMethod(v, "POST", UrlDocs, NoOptions)] }
TimeoutResponses == {RespOk1, RespApp, Rejection}

\* A call is dispatched (calls are made up to time MaxTime).
Dispatch(name, params) == now <= MaxTime /\ Call(name, params)

\* Time passes; a timer that is due fires before time passes further.
Elapse ==
  /\ now < MaxTime + DefaultTimeout
  /\ \A r \in DOMAIN reqs : reqs[r].aborted \/ now < reqs[r].deadline
  /\ now' = now + 1
  /\ UNCHANGED <<variant, cacheStore, cacheHist, engineVars, lastReg, pager, keyRun, helperVars, laterVars>>

\* The network rejects the operation of an aborted call.
RejectAborted(r) == r \in DOMAIN reqs /\ reqs[r].aborted /\ Settle(r, Rejection)

NextTimeout ==
  \/ \E reg \in TimeoutRegistrations(variant) : Register(reg)
  \/ \E name \in Names : \E params \in ParamsOf(name) : Dispatch(name, params)
  \/ \E r \in 1..MaxReqs, response \in TimeoutResponses : Settle(r, response)
  \/ \E r \in 1..MaxReqs : Timeout(r)
  \/ Elapse

SpecTimeout ==
  /\ Init /\ [][NextTimeout]_vars
  /\ WF_vars(Elapse)
  /\ \A r \in 1..MaxReqs : WF_vars(Timeout(r)) /\ WF_vars(RejectAborted(r))

\* C18: a call the network has not answered when its timeout elapses is
\* aborted at that moment and resolves as a failure (null, the abort error
\* recorded), so that every dispatched call is eventually settled.
C18_TimeoutSettles ==
  /\ [][\A r \in 1..MaxReqs :
          (r \in DOMAIN reqs /\ Timeout(r)) => (now = reqs[r].deadline /\ reqs'[r].aborted)]_vars
  /\ [](\A r \in DOMAIN reqs : ~reqs[r].aborted => now <= reqs[r].deadline)
  /\ [][\A r \in 1..MaxReqs : \A response \in TimeoutResponses :
          (r \in DOMAIN reqs /\ reqs[r].aborted /\ Settle(r, response))
          => (/\ Conclude(variant, reqs[r], response).result = Null
              /\ messageState'.error = [message |-> "AbortError"]
              /\ r \notin DOMAIN reqs')]_vars
  /\ \A r \in 1..MaxReqs : (r \in DOMAIN reqs) ~> (r \notin DOMAIN reqs)

\* Two calls dispatched at different times, the first timed out and aborted
\* while the second is not yet due.
C18_Witness ==
  /\ 1 \in DOMAIN reqs /\ 2 \in DOMAIN reqs
  /\ reqs[1].aborted /\ ~reqs[1].byAbort
  /\ ~reqs[2].aborted /\ now < reqs[2].deadline

\* -------------------------------------------- registry: claim C8
\* The registrations tried against the registry: every registering function,
\* under both names.
RegistrySamples(v) ==
  Registrations(v) \cup
  { [name |-> "users", ep |-> get(v, UrlDocs, [NoOptions EXCEPT !.cache = "no-cache"])],
    [name |-> "users", ep |-> makeWriteMethod(v, "PUT", UrlUsers, NoOptions)],
    [name |-> "docs", ep |-> get(v, UrlDocs, NoOptions)],
    [name |-> "docs", ep |-> makeWriteMethod(v, "PATCH", UrlUsers, NoOptions)] }

\* get / post / put / patch / del (name, url, options), with the outcome of
\* defineEndpoint recorded.
Define(reg) ==
  /\ LET r == defineEndpoint(api, reg.name, reg.ep)
     IN /\ api' = r.registry
        /\ lastReg' = [name |-> reg.name, method |-> reg.ep.method, threw |-> r.threw]
  /\ UNCHANGED <<baseVars, cacheHist, reqs, pendingRequests, activeControllers, messageState,
                 dataStore, loadingState, pager, keyRun, helperVars, laterVars>>

NextRegistry == \E reg \in RegistrySamples(variant) : Define(reg)

SpecRegistry == Init /\ [][NextRegistry]_vars

\* C8: a registration of a name that is already registered is rejected
\* (defineProperty throws) and leaves the registry as it was, whatever the
\* method, URL or options; an entry of the registry never changes or disappears.
C8_WriteOnce ==
  /\ [][\A reg \in RegistrySamples(variant) :
          (reg.name \in DOMAIN api /\ Define(reg)) => (lastReg'.threw /\ api' = api)]_vars
  /\ [][\A name \in DOMAIN api : name \in DOMAIN api' /\ api'[name] = api[name]]_vars
  /\ [](lastReg.name # "" /\ ~lastReg.threw => api[lastReg.name].method = lastReg.method)

\* A registration with another method has just been rejected, the original
\* endpoint still in place.
C8_Witness ==
  /\ lastReg.threw
  /\ api[lastReg.name].method # lastReg.method

\* ------------------------------------------------ request key: claim C6
\* The entries parameter objects are made of.
KeyEntries == { [k |-> "a", v |-> Num("1")], [k |-> "b", v |-> Arr(<<"x", "y">>)],
                [k |-> "id", v |-> Str("7")] }

\* The parameter objects: every insertion order of every subset of the entries.
KeyParams ==
  { p \in UNION {[1..n -> KeyEntries] : n \in 0..Cardinality(KeyEntries)} :
      \A i, j \in DOMAIN p : i # j => p[i] # p[j] }

\* The parameter objects with the entries of p in any insertion order.
Reorderings(p) ==
  { q \in KeyParams : Len(q) = Len(p) /\ {q[i] : i \in DOMAIN q} = {p[i] : i \in DOMAIN p} }

\* The endpoints the keys are computed for.
KeyRegistrations(v) ==
  { [name |-> "users", ep |-> get(v, UrlUsers, NoOptions)],
    [name |-> "users", ep |-> get(v, UrlUsers, [NoOptions EXCEPT !.cache = "no-cache"])],
    [name |-> "docs", ep |-> del(v, UrlDocs, NoOptions)],
    [name |-> "docs", ep |-> get(v, UrlDocs, NoOptions)] }

\* An earlier call of the endpoint with parameters p still stands: it is in
\* flight under its key, or its result is in the cache.
FirstStands(name, p) ==
  \/ api[name].dedupe /\ InFlight(KeyOf(name, p)) # {}
  \/ api[name].useCache /\ MapHas(cacheStore, KeyOf(name, p))

\* The first call, api[name](p).
KeyCall(name, p) ==
  /\ keyRun.stage = "none"
  /\ request(name, p)
  /\ keyRun' = [stage |-> "first", name |-> name, p |-> p, key |-> KeyOf(name, p)]
  /\ UNCHANGED <<cacheHist, lastReg, pager, helperVars, laterVars>>

\* The second call, api[name](q), q having the entries of p in another order.
KeyCallAgain(q) ==
  /\ keyRun.stage = "first"
  /\ q \in Reorderings(keyRun.p)
  /\ request(keyRun.name, q)
  /\ keyRun' = [stage |-> "second", name |-> keyRun.name, p |-> keyRun.p,
                key |-> keyRun.key, q |-> q, key2 |-> KeyOf(keyRun.name, q),
                stood |-> FirstStands(keyRun.name, keyRun.p),
                via |-> CallVia(keyRun.name, q)]
  /\ UNCHANGED <<cacheHist, lastReg, pager, helperVars, laterVars>>

NextKey ==
  \/ \E reg \in KeyRegistrations(variant) : Register(reg)
  \/ \E name \in Names : \E p \in KeyParams : KeyCall(name, p)
  \/ \E r \in 1..MaxReqs : Settle(r, RespOk1)
  \/ \E q \in KeyParams : KeyCallAgain(q)

SpecKey == Init /\ [][NextKey]_vars

\* C6: the request key of an endpoint is the same for parameter objects that
\* differ only in the insertion order of their keys, so a call whose parameters
\* are a reordering of those of a call that is in flight or cached joins that
\* call or is served from the cache.
C6_KeyOrderFree ==
  keyRun.stage = "second" =>
    /\ keyRun.key2 = keyRun.key
    /\ keyRun.stood => keyRun.via \in {"cache", "join"}

\* A call with three parameters in another order has joined the call in flight.
C6_Witness ==
  /\ keyRun.stage = "second"
  /\ Len(keyRun.p) = 3 /\ keyRun.q # keyRun.p
  /\ keyRun.via = "join"

\* ------------------------------------------- pagination: claims C9, C10
\* maxPages: Infinity, the default.
Infinity == 0 - 1
\* pageBase: a value Number.isFinite rejects.
NotFinite == 0 - 1
\* i < maxPages
Below(i, maxPages) == maxPages = Infinity \/ i < maxPages

\* What the endpoint callable resolves with: null (a failed call), an array of
\* n items, an object with a data array of n items and a nextCursor (undefined
\* when the field is omitted), or an object without a data field.
PageNull == [t |-> "null", n |-> 0, data |-> FALSE, next |-> Undef]
PageArray(n) == [t |-> "array", n |-> n, data |-> FALSE, next |-> Undef]
PageEnvelope(n, next) == [t |-> "object", n |-> n, data |-> TRUE, next |-> next]
PageObject == [t |-> "object", n |-> 0, data |-> FALSE, next |-> Undef]

\* The items of the page that request k received: item i of request k.
Items(k, n) == [i \in 1..n |-> <<k, i>>]

PageSizes == {7, 20}
PageLens == {0, 3, 7, 20}
MaxPagesOptions == {Infinity, 0, 1, 2}
PageBases == {0, 1, NotFinite}
GetAllResults == {PageNull, PageObject} \cup {PageArray(n) : n \in PageLens}
Cursors == {Undef, Null, Str(""), Num("0"), Str("c1"), Str("c2")}
CursorLens == {0, 3}
GetCursorResults ==
  {PageNull, PageObject} \cup {PageArray(n) : n \in CursorLens}
  \cup {PageEnvelope(n, c) : n \in CursorLens, c \in Cursors}

\* The locals of a getAll / getCursor call at its start, with the log of the
\* requests sent and of the results received.
PagerAtStart(fn, name, rawMode, pageSize, maxPages, pageBase) ==
  [fn |-> fn, name |-> name, defined |-> name \in DOMAIN api,
   mode |-> IF rawMode = "page" THEN "page" ELSE "offset",
   pageSize |-> pageSize, maxPages |-> maxPages, pageBase |-> pageBase,
   base |-> IF pageBase = NotFinite THEN 0 ELSE pageBase,
   index |-> 0, cursor |-> Null, allData |-> <<>>,
   awaiting |-> FALSE, done |-> FALSE, sent |-> <<>>, got |-> <<>>]

\* The paging parameters of the next request of getAll.
pagingParams(st) ==
  IF st.mode = "page" THEN [offset |-> st.base + st.index, limit |-> st.pageSize]
  ELSE [offset |-> st.index * st.pageSize, limit |-> st.pageSize]

\* The head of the loop of getAll: the next request is sent and awaited, or
\* allData is returned.
getAllHead(st) ==
  IF Below(st.index, st.maxPages)
  THEN [st EXCEPT !.awaiting = TRUE, !.sent = Append(@, pagingParams(st))]
  ELSE [st EXCEPT !.done = TRUE]

\* Mutant: getAll without the break on a page shorter than pageSize.
getAllNoShortBreak(st, result) ==
  LET st1 == [st EXCEPT !.awaiting = FALSE, !.got = Append(@, result)]
  IN IF result.t # "array" \/ result.n = 0 THEN [st1 EXCEPT !.done = TRUE]
     ELSE getAllHead([st1 EXCEPT !.allData = @ \o Items(Len(st.sent), result.n),
                                 !.index = @ + 1])

\* getAll from the result of the awaited call to the next await or the return.
getAll(st, result) ==
  LET st1 == [st EXCEPT !.awaiting = FALSE, !.got = Append(@, result)]
  IN IF result.t # "array" \/ result.n = 0 THEN [st1 EXCEPT !.done = TRUE]
     ELSE LET st2 == [st1 EXCEPT !.allData = @ \o Items(Len(st.sent), result.n)]
          IN IF result.n < st.pageSize THEN [st2 EXCEPT !.done = TRUE]
             ELSE getAllHead([st2 EXCEPT !.index = @ + 1])

\* The head of the loop of getCursor; the cursor parameter is sent only when
\* the cursor is truthy.
getCursorHead(st) ==
  IF Below(st.index, st.maxPages)
  THEN [st EXCEPT !.awaiting = TRUE,
                  !.sent = Append(@, [cursor |-> IF Truthy(st.cursor) THEN st.cursor ELSE Undef])]
  ELSE [st EXCEPT !.done = TRUE]

\* Mutant: getCursor without the break on a missing next cursor.
getCursorNoCursorBreak(st, result) ==
  LET st1 == [st EXCEPT !.awaiting = FALSE, !.got = Append(@, result)]
      isArray == result.data \/ result.t = "array"
  IN IF result.t = "null" THEN [st1 EXCEPT !.done = TRUE]
     ELSE IF ~isArray \/ result.n = 0 THEN [st1 EXCEPT !.done = TRUE]
     ELSE getCursorHead([st1 EXCEPT !.allData = @ \o Items(Len(st.sent), result.n),
                                    !.cursor = result.next, !.index = @ + 1])

\* getCursor from the result of the awaited call to the next await or the
\* return; items is result.data || result.
getCursor(st, result) ==
  LET st1 == [st EXCEPT !.awaiting = FALSE, !.got = Append(@, result)]
      isArray == result.data \/ result.t = "array"
  IN IF result.t = "null" THEN [st1 EXCEPT !.done = TRUE]
     ELSE IF ~isArray \/ result.n = 0 THEN [st1 EXCEPT !.done = TRUE]
     ELSE LET st2 == [st1 EXCEPT !.allData = @ \o Items(Len(st.sent), result.n),
                                 !.cursor = result.next]
          IN IF ~Truthy(result.next) THEN [st2 EXCEPT !.done = TRUE]
             ELSE getCursorHead([st2 EXCEPT !.index = @ + 1])

\* Whether a getAll page is one the data of the server can end with.
EndsAll(st, result) == result.t # "array" \/ result.n < st.pageSize
\* Whether a getCursor page is one the data of the server can end with.
EndsCursor(result) ==
  \/ result.t = "null"
  \/ ~(result.data \/ result.t = "array")
  \/ result.n = 0
  \/ ~Truthy(result.next)

\* getAll(name, {}, options) is called: up to the first await or the return.
GetAll(name, rawMode, pageSize, maxPages, pageBase) ==
  /\ pager.fn = "none"
  /\ LET st == PagerAtStart("getAll", name, rawMode, pageSize, maxPages, pageBase)
     IN pager' = IF st.defined THEN getAllHead(st) ELSE [st EXCEPT !.done = TRUE]
  /\ UNCHANGED <<baseVars, cacheHist, engineVars, lastReg, keyRun, helperVars, laterVars>>

\* The awaited call of getAll resolves; the data of the server ends by page
\* MaxServed.
GetAllResult(result) ==
  /\ pager.fn = "getAll" /\ pager.awaiting
  /\ Len(pager.sent) >= MaxServed => EndsAll(pager, result)
  /\ pager' = getAll(pager, result)
  /\ UNCHANGED <<baseVars, cacheHist, engineVars, lastReg, keyRun, helperVars, laterVars>>

\* getCursor(name, {}, options) is called: up to the first await or the return.
GetCursor(name, maxPages) ==
  /\ pager.fn = "none"
  /\ LET st == PagerAtStart("getCursor", name, "offset", 0, maxPages, 0)
     IN pager' = IF st.defined THEN getCursorHead(st) ELSE [st EXCEPT !.done = TRUE]
  /\ UNCHANGED <<baseVars, cacheHist, engineVars, lastReg, keyRun, helperVars, laterVars>>

\* The awaited call of getCursor resolves.
GetCursorResult(result) ==
  /\ pager.fn = "getCursor" /\ pager.awaiting
  /\ Len(pager.sent) >= MaxServed => EndsCursor(result)
  /\ pager' = getCursor(pager, result)
  /\ UNCHANGED <<baseVars, cacheHist, engineVars, lastReg, keyRun, helperVars, laterVars>>

\* The endpoint that is paged through.
PageRegistrations(v) == { [name |-> "users", ep |-> get(v, UrlUsers, NoOptions)] }

NextPage ==
  \/ \E reg \in PageRegistrations(variant) : Register(reg)
  \/ \E name \in Names, rawMode \in {"offset", "page"}, pageSize \in PageSizes,
        maxPages \in MaxPagesOptions, pageBase \in PageBases :
       GetAll(name, rawMode, pageSize, maxPages, pageBase)
  \/ \E result \in GetAllResults : GetAllResult(result)
  \/ \E name \in Names, maxPages \in MaxPagesOptions : GetCursor(name, maxPages)
  \/ \E result \in GetCursorResults : GetCursorResult(result)

SpecPage == Init /\ [][NextPage]_vars

\* The items getAll has from the pages received: those of the array pages, in
\* request order.
RECURSIVE AllOf(_, _)
AllOf(got, k) ==
  IF k = 0 THEN <<>>
  ELSE AllOf(got, k - 1) \o (IF got[k].t = "array" THEN Items(k, got[k].n) ELSE <<>>)

\* A page after which getAll stops: empty, not an array, or short.
StopsAll(st, result) == result.t # "array" \/ result.n = 0 \/ result.n < st.pageSize

\* C9: getAll sends its requests one after another, request k with limit
\* pageSize and offset (k-1)*pageSize (or page pageBase + (k-1) in page mode);
\* it stops exactly at the first page that is empty, not an array or shorter
\* than pageSize, or after maxPages requests, sends nothing after that page and
\* returns the pages received concatenated in request order; pages of 20, 20
\* and 7 items with pageSize 20 give 47 items in 3 requests.
C9_GetAll ==
  pager.fn = "getAll" =>
    LET sent == pager.sent
        got == pager.got
    IN /\ Len(sent) = Len(got) + (IF pager.awaiting THEN 1 ELSE 0)
       /\ \A k \in 1..Len(sent) :
            /\ sent[k].limit = pager.pageSize
            /\ pager.mode = "offset" => sent[k].offset = (k - 1) * pager.pageSize
            /\ pager.mode = "page" /\ pager.pageBase # NotFinite
                 => sent[k].offset = pager.pageBase + (k - 1)
       /\ \A k \in 1..Len(got) : k < Len(sent) => ~StopsAll(pager, got[k])
       /\ pager.maxPages # Infinity => Len(sent) <= pager.maxPages
       /\ ~pager.done => pager.awaiting
       /\ pager.done =>
            /\ ~pager.awaiting
            /\ \/ ~pager.defined /\ sent = <<>>
               \/ got # <<>> /\ StopsAll(pager, got[Len(got)])
               \/ Len(sent) = pager.maxPages
       /\ pager.allData = AllOf(got, Len(got))
       /\ (/\ pager.pageSize = 20
           /\ got = <<PageArray(20), PageArray(20), PageArray(7)>>)
          => (pager.done /\ Len(pager.allData) = 47 /\ Len(sent) = 3)

\* getAll has returned 47 items after pages of 20, 20 and 7.
C9_Witness ==
  /\ pager.fn = "getAll" /\ pager.done
  /\ pager.pageSize = 20 /\ pager.maxPages = Infinity
  /\ pager.got = <<PageArray(20), PageArray(20), PageArray(7)>>
  /\ Len(pager.allData) = 47

\* The items a getCursor page carries: result.data || result, when an array.
CursorItems(k, result) ==
  IF result.t # "null" /\ (result.data \/ result.t = "array") THEN Items(k, result.n)
  ELSE <<>>

RECURSIVE CursorAllOf(_, _)
CursorAllOf(got, k) ==
  IF k = 0 THEN <<>> ELSE CursorAllOf(got, k - 1) \o CursorItems(k, got[k])

\* A page after which getCursor stops: no items, or no next-cursor value
\* (undefined, null, or another falsy value).
StopsCursor(result) ==
  \/ CursorItems(1, result) = <<>>
  \/ result.next \in {Undef, Null, Str(""), Num("0")}

\* C10: getCursor sends its requests one after another, each with the cursor
\* of the page before; it stops exactly at the first page that carries no
\* next-cursor value or no items, or after maxPages requests, sends nothing
\* after that page and returns the items of all pages received in request order.
C10_GetCursor ==
  pager.fn = "getCursor" =>
    LET sent == pager.sent
        got == pager.got
    IN /\ Len(sent) = Len(got) + (IF pager.awaiting THEN 1 ELSE 0)
       /\ \A k \in 1..Len(sent) :
            sent[k].cursor = IF k = 1 THEN Undef ELSE got[k - 1].next
       /\ \A k \in 1..Len(got) : k < Len(sent) => ~StopsCursor(got[k])
       /\ pager.maxPages # Infinity => Len(sent) <= pager.maxPages
       /\ ~pager.done => pager.awaiting
       /\ pager.done =>
            /\ ~pager.awaiting
            /\ \/ ~pager.defined /\ sent = <<>>
               \/ got # <<>> /\ StopsCursor(got[Len(got)])
               \/ Len(sent) = pager.maxPages
       /\ pager.allData = CursorAllOf(got, Len(got))

\* getCursor has returned the items of two pages, the second of which omitted
\* the next cursor.
C10_Witness ==
  /\ pager.fn = "getCursor" /\ pager.done
  /\ pager.got = <<PageEnvelope(3, Str("c1")), PageEnvelope(3, Undef)>>
  /\ Len(pager.allData) = 6

\* ============================================================ withRetry
\* The options withRetry is called with.
MaxRetries == 3
RetryCounts == 0..MaxRetries
RetryDelays == {1, 2}
RetryBackoffs == {1, 2, 3}

\* Promises are objects; two promises are the same only if they were created
\* at the same place by the same call.  The n-th endpoint call made by a helper
\* creates the promise of the async IIFE inside request, which request uses as
\* the key of errorByPromise ...
RequestPromise(n) == [of |-> "request", n |-> n]
\* ... and the promise of the async callable api[name], which is what the
\* caller of api[name](params) holds.
EndpointPromise(n) == [of |-> "endpoint", n |-> n]
\* Promise.resolve(p) of a native promise is p itself.
PromiseResolve(p) == p
\* errorByPromise.get(p): undefined when p is not a key.
ErrorLookup(map, p) == IF p \in DOMAIN map THEN map[p] ELSE Undef

\* The request a helper's endpoint call makes: api.users(), registered by get
\* with default options.
HelperReq == NewReq("users", get(variant, UrlUsers, NoOptions), <<>>, FALSE)
\* What the n-th endpoint call of a helper leaves in errorByPromise (the
\* try and catch blocks of request), the network having given response.
RecordOutcome(map, n, response) ==
  LET c == Conclude(variant, HelperReq, response)
  IN FnSet(map, RequestPromise(n), IF c.failed THEN [message |-> c.message] ELSE Null)

\* A wait of the same length before every attempt.
RetryWaitFlat(delay, backoff, attempt) == delay
\* The wait before the next attempt.
RetryWait(delay, backoff, attempt) == delay * backoff^attempt

\* Mutant: the retry decision read from the shared messageState.error.
withRetryShared(st, outcome, err) ==
  LET caught == outcome.threw \/ (outcome.result = Null /\ messageState.error # NoError)
      error == IF outcome.threw THEN outcome.error ELSE messageState.error
  IN IF ~caught
     THEN [st EXCEPT !.stage = "returned", !.result = outcome.result]
     ELSE IF st.attempt < st.retries
          THEN [st EXCEPT !.stage = "waiting", !.lastError = error,
                          !.waits = Append(@, RetryWait(st.delay, st.backoff, st.attempt))]
          ELSE [st EXCEPT !.stage = "threw", !.lastError = error]

\* One turn of the loop of withRetry from the point where fn() has settled:
\* outcome is what fn() did ([threw, error, result]) and err is what
\* errorByPromise.get(p) gave.  An Error object is truthy, null and undefined
\* are not.
withRetry(st, outcome, err) ==
  LET caught == outcome.threw \/ (outcome.result = Null /\ err \notin {Undef, Null})
      error == IF outcome.threw THEN outcome.error ELSE err
  IN IF ~caught
     THEN [st EXCEPT !.stage = "returned", !.result = outcome.result]
     ELSE IF st.attempt < st.retries
          THEN [st EXCEPT !.stage = "waiting", !.lastError = error,
                          !.waits = Append(@, RetryWait(st.delay, st.backoff, st.attempt))]
          ELSE [st EXCEPT !.stage = "threw", !.lastError = error]

\* What a plain function may do on its attempt number k: return a value,
\* return null, throw, or return a promise that rejects.
PlainOutcomes(k) ==
  { [threw |-> FALSE, error |-> Undef, result |-> Num("1"), how |-> "returns"],
    [threw |-> FALSE, error |-> Undef, result |-> Null, how |-> "returns"],
    [threw |-> TRUE, error |-> [message |-> "failed", attempt |-> k], result |-> Undef,
     how |-> "throws"],
    [threw |-> TRUE, error |-> [message |-> "failed", attempt |-> k], result |-> Undef,
     how |-> "rejects"] }

\* withRetry(fn, {retries, delay, backoff}) is called: the loop is entered and
\* fn is invoked for the first time.  fn is a plain function or
\* () => api.users().
WithRetry(fn, retries, delay, backoff) ==
  /\ retry.stage = "none"
  /\ retry' = [stage |-> "calling", fn |-> fn, retries |-> retries, delay |-> delay,
               backoff |-> backoff, attempt |-> 0, lastError |-> Undef, result |-> Undef,
               calls |-> 1, waits |-> <<>>, fails |-> 0, lastFailed |-> FALSE]
  /\ UNCHANGED <<baseVars, cacheHist, engineVars, lastReg, pager, keyRun, laterVars, errorByPromise,
                 hooks, poller>>

\* The plain function's attempt settles.
RetryPlainSettles(outcome) ==
  /\ retry.stage = "calling" /\ retry.fn = "plain"
  /\ outcome \in PlainOutcomes(retry.attempt)
  /\ retry' = [withRetry(retry, outcome, ErrorLookup(errorByPromise, [of |-> "plain"]))
                 EXCEPT !.fails = @ + (IF outcome.threw THEN 1 ELSE 0),
                        !.lastFailed = outcome.threw]
  /\ UNCHANGED <<baseVars, cacheHist, engineVars, lastReg, pager, keyRun, laterVars, errorByPromise,
                 hooks, poller>>

\* The endpoint call of the attempt settles: request records the outcome under
\* its own promise and resolves; withRetry looks up the promise fn() returned.
RetryEndpointSettles(response) ==
  /\ retry.stage = "calling" /\ retry.fn = "endpoint"
  /\ LET c == Conclude(variant, HelperReq, response)
         p == PromiseResolve(EndpointPromise(retry.calls))
     IN /\ errorByPromise' = RecordOutcome(errorByPromise, retry.calls, response)
        /\ retry' = [withRetry(retry, [threw |-> FALSE, error |-> Undef, result |-> c.result],
                               ErrorLookup(errorByPromise', p))
                       EXCEPT !.fails = @ + (IF c.failed THEN 1 ELSE 0),
                              !.lastFailed = c.failed]
  /\ UNCHANGED <<baseVars, cacheHist, engineVars, lastReg, pager, keyRun, laterVars, hooks, poller>>

\* The wait is over: the next turn of the loop invokes fn again.
RetryAgain ==
  /\ retry.stage = "waiting"
  /\ retry' = [retry EXCEPT !.stage = "calling", !.attempt = @ + 1, !.calls = @ + 1]
  /\ UNCHANGED <<baseVars, cacheHist, engineVars, lastReg, pager, keyRun, laterVars, errorByPromise,
                 hooks, poller>>

NextRetry ==
  \/ \E fn \in {"plain", "endpoint"}, retries \in RetryCounts, delay \in RetryDelays,
        backoff \in RetryBackoffs : WithRetry(fn, retries, delay, backoff)
  \/ \E k \in RetryCounts : \E outcome \in PlainOutcomes(k) : RetryPlainSettles(outcome)
  \/ \E response \in Responses : RetryEndpointSettles(response)
  \/ RetryAgain

SpecRetry == Init /\ [][NextRetry]_vars

\* The waits withRetry has made so far are delay * backoff^i, i = 0, 1, ...
WaitsAreBackoff ==
  \A i \in 1..Len(retry.waits) : retry.waits[i] = retry.delay * retry.backoff^(i - 1)

\* C11: for a function that fails on its first k attempts and then succeeds
\* (k <= retries), withRetry returns the success value after k+1 invocations
\* and k waits, the i-th wait lasting delay * backoff^i; if all retries+1
\* attempts fail it has waited `retries` times, invoked the function retries+1
\* times and throws the error of the last attempt.
C11_RetryCounts ==
  (retry.stage # "none" /\ retry.fn = "plain") =>
    /\ WaitsAreBackoff
    /\ retry.stage = "returned" =>
         /\ retry.fails <= retry.retries
         /\ retry.calls = retry.fails + 1
         /\ Len(retry.waits) = retry.fails
         /\ retry.result \in {Num("1"), Null} /\ ~retry.lastFailed
    /\ retry.stage = "threw" =>
         /\ retry.fails = retry.retries + 1
         /\ retry.calls = retry.retries + 1
         /\ Len(retry.waits) = retry.retries
         /\ retry.lastError = [message |-> "failed", attempt |-> retry.retries]

\* A function failing twice then succeeding, with retries = 3, delay 2 and
\* backoff 3, has returned after waits of 2 and 6.
C11_Witness ==
  /\ retry.stage = "returned" /\ retry.fn = "plain"
  /\ retry.retries = 3 /\ retry.fails = 2 /\ retry.calls = 3
  /\ retry.waits = <<2, 6>>
  /\ retry.result = Num("1")

\* C12: withRetry(() => api[name](params)) takes an endpoint call that failed
\* as a failed attempt: it returns only the result of a successful call, after
\* one more call than calls failed, and throws the recorded error when all
\* retries+1 calls failed.
C12_RetryOnNull ==
  (retry.stage # "none" /\ retry.fn = "endpoint") =>
    /\ retry.stage = "returned" => (~retry.lastFailed /\ retry.calls = retry.fails + 1)
    /\ (retry.stage = "calling" /\ retry.fails = retry.calls - 1 /\ retry.calls > 1) =>
         Len(retry.waits) = retry.fails
    /\ retry.stage = "threw" => retry.calls = retry.retries + 1

\* ======================================================= loading signal
\* The debounce timer is armed by every startLoading and cleared when the
\* active set empties; it fires 100 ms after the start that armed it.  So at any
\* moment "less than 100 ms have elapsed since the most recent request start"
\* is the same as "the timer is still pending".  onLoading has installed both
\* hooks; the log records their calls.
MaxStarts == 4

\* The timer callback calls hooks.start with the unguarded test.
timerShowsAlways(ls) == ls.active # {}
\* The timer callback calls hooks.start.
timerShows(ls) == ls.active # {} /\ ~ls.isShowing
\* endLoading calls hooks.end whenever the set empties.
endHidesAlways(ls, id) == ls.active \ {id} = {}
\* endLoading(id) calls hooks.end.
endHides(ls, id) == ls.active \ {id} = {} /\ ls.isShowing

\* A request starts: startLoading(id).
LoadStart(id) ==
  /\ id \notin loadingState.active
  /\ hooks.starts < MaxStarts
  /\ loadingState' = startLoading(loadingState, id)
  /\ hooks' = [hooks EXCEPT !.starts = @ + 1]
  /\ UNCHANGED <<baseVars, cacheHist, api, reqs, pendingRequests, activeControllers,
                 messageState, dataStore, lastReg, pager, keyRun, laterVars, errorByPromise, retry,
                 poller>>

\* A request ends: endLoading(id).  When the set empties the burst is over and
\* is recorded: whether the timer was still pending, whether hooks.start was
\* called during the burst and whether hooks.end is called now.
LoadEnd(id) ==
  /\ id \in loadingState.active
  /\ loadingState' = endLoading(loadingState, id)
  /\ hooks' = IF loadingState.active \ {id} # {} THEN hooks
              ELSE [hooks EXCEPT
                      !.log = IF endHides(loadingState, id) THEN Append(@, "end") ELSE @,
                      !.fired = FALSE,
                      !.last = [over |-> TRUE, early |-> loadingState.timer,
                                shown |-> loadingState.isShowing,
                                startFired |-> hooks.fired,
                                endFired |-> endHides(loadingState, id)]]
  /\ UNCHANGED <<baseVars, cacheHist, api, reqs, pendingRequests, activeControllers,
                 messageState, dataStore, lastReg, pager, keyRun, laterVars, errorByPromise, retry,
                 poller>>

\* The debounce timer fires.
DebounceFire ==
  /\ loadingState.timer
  /\ loadingState' = [loadingState EXCEPT !.timer = FALSE,
                                          !.isShowing = @ \/ timerShows(loadingState)]
  /\ hooks' = IF timerShows(loadingState)
              THEN [hooks EXCEPT !.log = Append(@, "start"), !.fired = TRUE]
              ELSE hooks
  /\ UNCHANGED <<baseVars, cacheHist, api, reqs, pendingRequests, activeControllers,
                 messageState, dataStore, lastReg, pager, keyRun, laterVars, errorByPromise, retry,
                 poller>>

LoadIds == 1..(MaxReqs + 1)

NextLoading ==
  \/ \E id \in LoadIds : LoadStart(id)
  \/ \E id \in LoadIds : LoadEnd(id)
  \/ DebounceFire

SpecLoading == Init /\ [][NextLoading]_vars

\* C13 as stated: a burst that ends while less than 100 ms have elapsed since
\* its most recent request start has fired neither hooks.start nor hooks.end.
C13_EarlyEndNoHooks ==
  (hooks.last.over /\ hooks.last.early) =>
    (~hooks.last.startFired /\ ~hooks.last.endFired)

\* C13 (amended): a burst that ends while less than 100 ms have elapsed since
\* its most recent request start, the signal not being shown already, has fired
\* neither hooks.start nor hooks.end; and the timer is cleared with the burst,
\* so nothing fires after it either.
C13_QuietBurstNoHooks ==
  /\ (hooks.last.over /\ hooks.last.early /\ ~hooks.last.shown) =>
       (~hooks.last.startFired /\ ~hooks.last.endFired)
  /\ loadingState.active = {} => (~loadingState.timer /\ ~loadingState.isShowing)

\* One request started and ended inside the debounce window, nothing logged.
C13_Witness ==
  /\ hooks.last.over /\ hooks.last.early /\ ~hooks.last.shown
  /\ hooks.starts = 1 /\ loadingState.active = {}
  /\ hooks.log = <<>>

\* C14: hooks.start and hooks.end are called strictly alternately, beginning
\* with hooks.start; the signal is shown exactly between a start and its end.
C14_HooksAlternate ==
  /\ \A i \in 1..Len(hooks.log) :
       hooks.log[i] = IF i % 2 = 1 THEN "start" ELSE "end"
  /\ loadingState.isShowing <=> (Len(hooks.log) % 2 = 1)

\* Two bursts, each shown and hidden, the first with a second request starting
\* and the timer firing again while the signal was shown.
C14_Witness ==
  /\ hooks.log = <<"start", "end", "start", "end">>
  /\ hooks.starts = MaxStarts

\* ================================================================= poll
\* poll('users', params, {interval, immediate, onData, onError}) with both
\* callbacks given.  The calls of the poll are numbered; flying is the set of
\* its endpoint calls in flight.
MaxTicks == 3

\* A fetchData without the inFlight test.
pollSkipsNever(v, st) == FALSE
\* fetchData returns at once: the advanced variant tests state.inFlight,
\* src/data.js has no such test.
pollSkips(v, st) == v = "advanced" /\ st.inFlight

\* fetchData after its await: the callback it invokes, with its argument.
fetchData(data, err) ==
  IF data = Null /\ err \notin {Undef, Null}
  THEN [cb |-> "onError", arg |-> err]
  ELSE [cb |-> "onData", arg |-> data]

\* fetchData is entered, by poll itself (immediate) or by the interval.
fetchDataHead(st) ==
  IF pollSkips(variant, st) THEN st
  ELSE [st EXCEPT !.inFlight = TRUE, !.n = @ + 1, !.flying = @ \cup {st.n + 1}]

\* poll(...) is called.
Poll(immediate) ==
  /\ poller.stage = "none"
  /\ LET st == [stage |-> "running", inFlight |-> FALSE, n |-> 0, flying |-> {},
                ticks |-> 0, last |-> [cb |-> "none"]]
     IN poller' = IF immediate THEN fetchDataHead(st) ELSE st
  /\ UNCHANGED <<baseVars, cacheHist, engineVars, lastReg, pager, keyRun, laterVars, errorByPromise,
                 retry, hooks>>

\* The interval fires: fetchData().
PollTick ==
  /\ poller.stage = "running"
  /\ poller.ticks < MaxTicks
  /\ poller' = [fetchDataHead(poller) EXCEPT !.ticks = @ + 1]
  /\ UNCHANGED <<baseVars, cacheHist, engineVars, lastReg, pager, keyRun, laterVars, errorByPromise,
                 retry, hooks>>

\* The endpoint call number k of the poll resolves: request has recorded its
\* outcome under its own promise, fetchData looks up the promise api[name]
\* returned and invokes a callback; finally clears state.inFlight.
PollSettle(k, response) ==
  /\ poller.stage # "none" /\ k \in poller.flying
  /\ LET c == Conclude(variant, HelperReq, response)
         p == PromiseResolve(EndpointPromise(k))
     IN /\ errorByPromise' = RecordOutcome(errorByPromise, k, response)
        /\ poller' = [poller EXCEPT
                        !.inFlight = FALSE,
                        !.flying = @ \ {k},
                        !.last = [cb |-> fetchData(c.result, ErrorLookup(errorByPromise', p)).cb,
                                  arg |-> fetchData(c.result, ErrorLookup(errorByPromise', p)).arg,
                                  call |-> k, failed |-> c.failed, result |-> c.result,
                                  error |-> errorByPromise'[RequestPromise(k)]]]
  /\ UNCHANGED <<baseVars, cacheHist, engineVars, lastReg, pager, keyRun, laterVars, retry, hooks>>

\* The endpoint call number k rejects (a throwing before-interceptor): no
\* callback is invoked; finally clears state.inFlight.
PollThrows(k) ==
  /\ poller.stage # "none" /\ k \in poller.flying
  /\ poller' = [poller EXCEPT !.inFlight = FALSE, !.flying = @ \ {k},
                              !.last = [cb |-> "none", call |-> k]]
  /\ UNCHANGED <<baseVars, cacheHist, engineVars, lastReg, pager, keyRun, laterVars, errorByPromise,
                 retry, hooks>>

\* stopPoll(name): the interval is cleared; a call in flight still settles.
StopPoll ==
  /\ poller.stage = "running"
  /\ poller' = [poller EXCEPT !.stage = "stopped"]
  /\ UNCHANGED <<baseVars, cacheHist, engineVars, lastReg, pager, keyRun, laterVars, errorByPromise,
                 retry, hooks>>

PollCalls == 1..(MaxTicks + 1)

NextPoll ==
  \/ \E immediate \in BOOLEAN : Poll(immediate)
  \/ PollTick
  \/ \E k \in PollCalls, response \in Responses : PollSettle(k, response)
  \/ \E k \in PollCalls : PollThrows(k)
  \/ StopPoll

SpecPoll == Init /\ [][NextPoll]_vars

\* C19: in the advanced variant a tick that fires while the poll's previous
\* call is in flight invokes neither the endpoint nor a callback; at most one
\* call of the poll is in flight; and once that call has settled (resolved or
\* thrown) the next tick invokes the endpoint again.
C19_PollSkipsOverlap ==
  /\ [](variant = "advanced" /\ poller.stage # "none" =>
          /\ Cardinality(poller.flying) <= 1
          /\ poller.inFlight <=> poller.flying # {})
  /\ [][(variant = "advanced" /\ PollTick) =>
          IF poller.flying # {}
          THEN /\ poller'.flying = poller.flying /\ poller'.n = poller.n
               /\ poller'.last = poller.last
               /\ errorByPromise' = errorByPromise
          ELSE poller'.flying = {poller.n + 1} /\ poller'.n = poller.n + 1]_vars
  /\ [][\A k \in PollCalls :
          (variant = "advanced" /\ poller.stage # "none" /\ k \in poller.flying
           /\ (PollThrows(k) \/ \E response \in Responses : PollSettle(k, response)))
          => (poller'.flying = {} /\ ~poller'.inFlight)]_vars

\* Three ticks of an advanced poll: the call of the immediate fetch settled
\* after a tick was skipped, and a later tick started the second call.
C19_Witness ==
  /\ variant = "advanced" /\ poller.stage = "running"
  /\ poller.ticks = MaxTicks /\ poller.n = 2
  /\ poller.flying = {2}
  /\ poller.last.cb = "onData" /\ poller.last.call = 1

\* C20: a poll's endpoint call that failed invokes onError with the error
\* recorded for that call and not onData; one that succeeded invokes onData
\* with the result and not onError.
C20_PollCallbacks ==
  (poller.stage # "none" /\ poller.last.cb # "none") =>
    IF poller.last.failed
    THEN poller.last.cb = "onError" /\ poller.last.arg = poller.last.error
    ELSE poller.last.cb = "onData" /\ poller.last.arg = poller.last.result

Dispatched == {r \in DOMAIN reqs : ~reqs[r].bg}

\* C22: every entry of pendingRequests is the promise of a call in flight
\* under that key, and the loading set holds the ids of the calls in flight;
\* a call that settles, whatever the outcome, leaves pendingRequests, the
\* loading set and the timers; with no call in flight both are empty.
C22_NoStaleRegistration ==
  /\ [](/\ \A key \in DOMAIN pendingRequests :
             /\ pendingRequests[key] \in Dispatched
             /\ reqs[pendingRequests[key]].key = key
             /\ reqs[pendingRequests[key]].dedupe
        /\ loadingState.active = Dispatched
        /\ Dispatched = {} => (pendingRequests = <<>> /\ loadingState.active = {}))
  /\ [][\A r \in 1..MaxReqs : \A response \in Responses :
          (r \in DOMAIN reqs /\ ~reqs[r].bg /\ Settle(r, response))
          => (/\ reqs[r].dedupe => reqs[r].key \notin DOMAIN pendingRequests'
              /\ \A key \in DOMAIN pendingRequests' : pendingRequests'[key] # r
              /\ r \notin loadingState'.active
              /\ r \notin DOMAIN reqs')]_vars

\* A de-duplicated call has settled by timeout while a write call is still
\* in flight: the pending-promise Map is empty, the loading set holds the write.
C22_Witness ==
  /\ messageState.error = [message |-> "AbortError"]
  /\ pendingRequests = <<>>
  /\ Cardinality(Dispatched) = 1
  /\ \A r \in Dispatched : reqs[r].method = "POST" /\ loadingState.active = {r}
  /\ "users" \in DOMAIN api /\ api["users"].dedupe

\* ===================================================== after interceptor
\* What interceptors.after may be: not installed, a function that returns
\* undefined, one that throws, one that returns a promise which resolves or
\* rejects, one that returns a thenable without a catch method.
AfterKinds == {"none", "returns", "throws", "resolves", "rejects", "thenable"}

\* The call interceptors.after(data) and the handling of its result, left
\* outside any try block.
afterInterceptorBare(kind) ==
  [raised |-> kind \in {"throws", "thenable"}, unhandled |-> kind = "rejects"]

\* The block `if (interceptors.after) { try { ... } catch {} }`: whether an
\* exception leaves the block, and whether a rejected promise is left with no
\* handler.  The call throws for "throws"; r.catch(() => {}) is reached when r
\* is truthy with a then method, handles the rejection of a promise and itself
\* throws a TypeError for a thenable that has no catch; the catch block
\* swallows both.
afterInterceptor(kind) ==
  LET callThrows == kind = "throws"
      hasThen == kind \in {"resolves", "rejects", "thenable"}
      catchThrows == hasThen /\ kind = "thenable"
      swallowed == callThrows \/ catchThrows
  IN [raised |-> (callThrows \/ catchThrows) /\ ~swallowed,
      unhandled |-> kind = "rejects" /\ ~hasThen]

\* The async body of request with interceptors.after installed: the
\* interceptor runs after parsing and before isError, inside the outer try.
ConcludeAfter(v, req, response, kind) ==
  IF response.rejects
  THEN [failed |-> TRUE, result |-> Null, data |-> Null,
        message |-> IF req.aborted THEN "AbortError" ELSE "TypeError", unhandled |-> FALSE]
  ELSE LET parsed == IF v = "advanced" THEN parseResponse(response, req.parse)
                     ELSE responseJson(response)
           after == IF kind = "none" THEN [raised |-> FALSE, unhandled |-> FALSE]
                    ELSE afterInterceptor(kind)
       IN IF parsed.threw
          THEN [failed |-> TRUE, result |-> Null, data |-> Null, message |-> "SyntaxError",
                unhandled |-> FALSE]
          ELSE IF after.raised
          THEN [failed |-> TRUE, result |-> Null, data |-> parsed.data,
                message |-> "interceptor", unhandled |-> after.unhandled]
          ELSE IF isError(response, parsed.data)
          THEN [failed |-> TRUE, result |-> Null, data |-> parsed.data,
                message |-> getErrorMessage(parsed.data), unhandled |-> after.unhandled]
          ELSE [failed |-> FALSE, result |-> applyExtract(parsed.data, req.extract),
                data |-> parsed.data, message |-> "", unhandled |-> after.unhandled]

\* The endpoints called with the interceptor installed.
AfterEndpoints(v) ==
  { get(v, UrlUsers, NoOptions), del(v, UrlDocs, NoOptions),
    makeWriteMethod(v, "POST", UrlDocs, NoOptions) }

\* interceptors.after = kind, then a call of the endpoint is dispatched.
AfterCall(kind, ep) ==
  /\ icept.stage = "none"
  /\ icept' = [stage |-> "called", kind |-> kind, req |-> NewReq("users", ep, <<>>, FALSE)]
  /\ UNCHANGED <<baseVars, cacheHist, engineVars, lastReg, pager, keyRun, helperVars,
                 debounce, lib, callers>>

\* The network answers and the async body of request runs to its end; the
\* promise of the call resolves with result (the body has no path that rejects).
AfterSettle(response) ==
  /\ icept.stage = "called"
  /\ LET c == ConcludeAfter(variant, icept.req, response, icept.kind)
     IN icept' = [stage |-> "settled", kind |-> icept.kind, req |-> icept.req,
                  response |-> response, failed |-> c.failed, result |-> c.result,
                  message |-> c.message, unhandled |-> c.unhandled]
  /\ UNCHANGED <<baseVars, cacheHist, engineVars, lastReg, pager, keyRun, helperVars,
                 debounce, lib, callers>>

NextAfter ==
  \/ \E kind \in AfterKinds, ep \in AfterEndpoints(variant) : AfterCall(kind, ep)
  \/ \E response \in Responses : AfterSettle(response)

SpecAfter == Init /\ [][NextAfter]_vars

\* C23: with an after interceptor that throws or returns a rejecting promise
\* the call resolves to the result, or the failure, it has without the
\* interceptor, and no exception or rejection is left unhandled.
C23_AfterIgnored ==
  icept.stage = "settled" =>
    LET plain == Conclude(variant, icept.req, icept.response)
    IN /\ icept.failed = plain.failed
       /\ icept.result = plain.result
       /\ icept.message = plain.message
       /\ ~icept.unhandled

\* A call whose interceptor threw has resolved with the data of the response.
C23_Witness ==
  /\ icept.stage = "settled" /\ icept.kind = "throws"
  /\ icept.response = RespOk1
  /\ ~icept.failed /\ icept.result = Num("1")

\* =========================================================== clearCache
\* Two cached GET endpoints, so that a pattern can match one key and not the
\* other.
ClearRegistrations(v) ==
  { [name |-> "users", ep |-> get(v, UrlUsers, NoOptions)],
    [name |-> "docs", ep |-> get(v, UrlDocs, NoOptions)] }
\* The patterns given to clearCache: none, the two names, a text in no key.
ClearSamples == ClearPatterns \cup { <<"docs">>, <<"nowhere">> }

NextClear ==
  \/ \E reg \in ClearRegistrations(variant) : Register(reg)
  \/ \E name \in Names : \E params \in ParamsOf(name) : Call(name, params)
  \/ \E r \in 1..MaxReqs, response \in Responses : Settle(r, response)
  \/ \E pattern \in ClearSamples : ClearCache(pattern)

SpecClear == Init /\ [][NextClear]_vars

\* The entries of a store, as a set.
Entries(store) == {store[i] : i \in 1..Len(store)}

\* C24: clearCache() removes every entry; clearCache(p) removes the entries
\* whose key contains p and leaves every other entry as it is; neither changes
\* pendingRequests, dataStore, messageState or the controllers.
C24_ClearCacheExact ==
  [][\A pattern \in ClearSamples :
       ClearCache(pattern)
       => (/\ pattern = <<>> => cacheStore' = <<>>
           /\ pattern # <<>> =>
                /\ Entries(cacheStore') =
                     {e \in Entries(cacheStore) : ~Includes(e.key, pattern)}
                /\ Len(cacheStore') = Cardinality(Entries(cacheStore'))
           /\ UNCHANGED <<pendingRequests, dataStore, messageState, activeControllers, reqs>>)]_vars

\* The cache holds the docs entry alone while dataStore has a result of both
\* endpoints and a call of users is pending: what clearCache("users") leaves.
C24_Witness ==
  /\ Len(cacheStore) = 1
  /\ Includes(cacheStore[1].key, <<"docs">>) /\ ~Includes(cacheStore[1].key, <<"users">>)
  /\ DOMAIN dataStore = {"users", "docs"}
  /\ pendingRequests # <<>>
  /\ messageState.success = Str("saved")

\* ---------------------------------------------------------------------------
\* getCursor over the request engine: what the endpoint callable resolves with
\* is what request returns, the payload after applyExtract.
\* ---------------------------------------------------------------------------

\* The item lists and next-cursor values of the server's pages.
CursorItemLists == {<<>>, <<Num("1"), Num("2")>>}
CursorNexts == {Null, Str("c1"), Str("c2")}

\* The body {data: items, nextCursor: next} of a page.
CursorBody(items, next) ==
  Obj(<<[k |-> "data", v |-> Arr(items)], [k |-> "nextCursor", v |-> next]>>)

\* The server's answers to a page request: an envelope, a bare array, or a
\* failure.
CursorPayloads ==
  {Response(TRUE, FALSE, TRUE, TRUE, CursorBody(items, next)) :
     items \in CursorItemLists, next \in CursorNexts}
  \cup {Response(TRUE, FALSE, TRUE, TRUE, Arr(<<Num("1"), Num("2")>>)), RespHttp}

\* getCursor's view of the value the callable resolved with: result[dataKey]
\* and result[nextCursorKey] with the default keys data and nextCursor.
PageOf(value) ==
  IF ~Truthy(value) THEN PageNull
  ELSE IF value.t = "array" THEN PageArray(Len(value.items))
  ELSE IF value.t = "object" /\ Field(value, "data").t = "array"
  THEN PageEnvelope(Len(Field(value, "data").items), Field(value, "nextCursor"))
  ELSE PageObject

\* The endpoint getCursor pages through: registered with default options, or
\* with extract "raw".
CursorRegistrations(v) ==
  { [name |-> "users", ep |-> get(v, UrlUsers, NoOptions)],
    [name |-> "users", ep |-> get(v, UrlUsers, [NoOptions EXCEPT !.extract = "raw"])] }

\* getCursor(name) or getCursor(name, {}, {maxPages}) is called: up to the
\* first await.
CursorCall(maxPages) ==
  /\ pager.fn = "none"
  /\ "users" \in DOMAIN api
  /\ pager' = getCursorHead([served |-> <<>>] @@
                            PagerAtStart("getCursor", "users", "offset", 0, maxPages, 0))
  /\ UNCHANGED <<baseVars, cacheHist, engineVars, lastReg, keyRun, helperVars, laterVars>>

\* The server answers the page request in flight: request concludes, the
\* callable resolves with its result and getCursor runs to its next await or
\* to its return.
CursorServe(response) ==
  /\ pager.fn = "getCursor" /\ pager.awaiting
  /\ LET req == NewReq("users", api["users"], <<>>, FALSE)
         page == PageOf(Conclude(variant, req, response).result)
     IN /\ Len(pager.sent) >= MaxServed => EndsCursor(page)
        /\ pager' = [getCursor(pager, page) EXCEPT !.served = Append(@, response)]
  /\ UNCHANGED <<baseVars, cacheHist, engineVars, lastReg, keyRun, helperVars, laterVars>>

NextCursor ==
  \/ \E reg \in CursorRegistrations(variant) : api = <<>> /\ Register(reg)
  \/ \E maxPages \in {Infinity, 1, 2} : CursorCall(maxPages)
  \/ \E response \in CursorPayloads : CursorServe(response)

SpecCursor == Init /\ [][NextCursor]_vars

\* The page k of the server carries a non-empty item list and a non-empty next
\* cursor.
CursorContinues(response) ==
  /\ ~response.rejects /\ response.json.t = "object"
  /\ Field(response.json, "data").t = "array"
  /\ Field(response.json, "data").items # <<>>
  /\ Truthy(Field(response.json, "nextCursor"))

\* C25: for an endpoint registered with default options and getCursor called
\* with default options, a page the server answers with a non-empty item list
\* under data and a non-empty value under nextCursor is followed by a further
\* request whose cursor parameter is that value, until a page has no next
\* cursor or maxPages is reached.
C25_CursorFollows ==
  (pager.fn = "getCursor" /\ api["users"].extract = Absent) =>
    \A k \in 1..Len(pager.served) :
      (CursorContinues(pager.served[k]) /\ Below(k, pager.maxPages)) =>
        /\ Len(pager.sent) >= k + 1
        /\ pager.sent[k + 1].cursor = Field(pager.served[k].json, "nextCursor")

\* ---------------------------------------------------------------------------
\* options.cacheKey of get
\* ---------------------------------------------------------------------------

\* The key K the application asks for.
CustomKey == <<"K">>

\* GET endpoints registered with options.cacheKey = K: get reads cache, swr,
\* extract, parse, timeout, dedupe and cacheTTL of its options and nothing else.
CustomKeyRegistrations(v) ==
  { [name |-> "users", ep |-> get(v, UrlUsers, [NoOptions EXCEPT !.cacheKey = CustomKey])],
    [name |-> "users",
     ep |-> get(v, UrlUsers, [NoOptions EXCEPT !.cacheKey = CustomKey, !.swr = TRUE])],
    [name |-> "docs", ep |-> get(v, UrlDocs, [NoOptions EXCEPT !.cacheKey = CustomKey])] }

NextCustomKey ==
  \/ \E reg \in CustomKeyRegistrations(variant) : Register(reg)
  \/ \E name \in Names : \E params \in ParamsOf(name) : Call(name, params)
  \/ \E r \in 1..MaxReqs : \E response \in {RespOk1, RespHttp} : Settle(r, response)
  \/ \E r \in 1..MaxReqs : SettleBackground(r, RespOkMsg2)

SpecCustomKey == Init /\ [][NextCustomKey]_vars

\* C26: a GET endpoint registered with options.cacheKey = K uses K as its cache
\* key and its de-duplication key: its calls are in flight under K, their
\* results are stored under K, and no computed key is used.
C26_CustomKeyUsed ==
  /\ \A r \in DOMAIN reqs : reqs[r].key = CustomKey
  /\ DOMAIN pendingRequests \subseteq {CustomKey}
  /\ \A i \in 1..Len(cacheStore) : cacheStore[i].key = CustomKey

\* ---------------------------------------------------------------------------
\* the loading signal in time: one tick is half the debounce delay
\* ---------------------------------------------------------------------------

\* How long each active request has been active (saturating at the debounce
\* delay), and the ticks left on the debounce timer (negative: not armed).
Older(age) == [id \in DOMAIN age |-> IF age[id] < DebounceTicks THEN age[id] + 1 ELSE age[id]]

\* A request starts: startLoading(id) re-arms the timer with the full delay.
TimedStart(id) ==
  /\ id \notin loadingState.active
  /\ debounce.starts < MaxStarts
  /\ loadingState' = startLoading(loadingState, id)
  /\ debounce' = [debounce EXCEPT !.age = (id :> 0) @@ @, !.due = DebounceTicks,
                                  !.starts = @ + 1]
  /\ UNCHANGED <<baseVars, cacheHist, api, reqs, pendingRequests, activeControllers,
                 messageState, dataStore, lastReg, pager, keyRun, helperVars, icept, lib, callers>>

\* A request ends: endLoading(id).
TimedEnd(id) ==
  /\ id \in loadingState.active
  /\ loadingState' = endLoading(loadingState, id)
  /\ debounce' = [debounce EXCEPT
                    !.age = [x \in DOMAIN @ \ {id} |-> @[x]],
                    !.due = IF loadingState.active \ {id} = {} THEN 0 - 1 ELSE @,
                    !.log = IF endHides(loadingState, id) THEN Append(@, "end") ELSE @]
  /\ UNCHANGED <<baseVars, cacheHist, api, reqs, pendingRequests, activeControllers,
                 messageState, dataStore, lastReg, pager, keyRun, helperVars, icept, lib, callers>>

\* The debounce timer is due and its callback runs.
TimedFire ==
  /\ loadingState.timer /\ debounce.due = 0
  /\ loadingState' = [loadingState EXCEPT !.timer = FALSE,
                                          !.isShowing = @ \/ timerShows(loadingState)]
  /\ debounce' = [debounce EXCEPT
                    !.due = 0 - 1,
                    !.log = IF timerShows(loadingState) THEN Append(@, "start") ELSE @]
  /\ UNCHANGED <<baseVars, cacheHist, api, reqs, pendingRequests, activeControllers,
                 messageState, dataStore, lastReg, pager, keyRun, helperVars, icept, lib, callers>>

\* Half the debounce delay passes; a timer that is due runs first.
TimePasses ==
  /\ loadingState.active # {}
  /\ debounce.due # 0
  /\ debounce' = [debounce EXCEPT !.age = Older(@),
                                  !.due = IF @ > 0 THEN @ - 1 ELSE @]
  /\ UNCHANGED loadingState
  /\ UNCHANGED <<baseVars, cacheHist, api, reqs, pendingRequests, activeControllers,
                 messageState, dataStore, lastReg, pager, keyRun, helperVars, icept, lib, callers>>

NextDebounce ==
  \/ \E id \in LoadIds : TimedStart(id)
  \/ \E id \in LoadIds : TimedEnd(id)
  \/ TimedFire
  \/ TimePasses

SpecDebounce == Init /\ [][NextDebounce]_vars

\* The second half of C27: when the signal is shown and the last active
\* request ends, hooks.end is called in that step.
EndInSameStep ==
  [][\A id \in LoadIds :
       (loadingState.isShowing /\ loadingState.active = {id} /\ TimedEnd(id))
         => debounce'.log = Append(debounce.log, "end")]_vars

\* C27: whenever a request has been continuously active for the debounce
\* delay and the signal is not shown, the start hook fires (the timer's
\* callback is due at that instant), whatever other requests started or ended
\* in the meantime.  (The claim's second half is EndInSameStep.)
C27_StartAfterDelay ==
  (~loadingState.isShowing
   /\ \E id \in loadingState.active : debounce.age[id] >= DebounceTicks)
    => (loadingState.timer /\ debounce.due = 0)

\* ---------------------------------------------------------------------------
\* lib.js (src/unnamed/part_002): concurrent POST calls
\* ---------------------------------------------------------------------------

\* A text given by its atoms, as a value.
Text(atoms) == [t |-> "text", atoms |-> atoms]

\* JSON.stringify of a payload object: the names in insertion order.
JsonStringify(obj) ==
  LET kept == SelectSeq(obj, LAMBDA e : e.v # Undef)
      parts == [i \in 1..Len(kept) |-> <<"\"", kept[i].k, "\"", ":">> \o Walk(kept[i].v)]
  IN <<"{">> \o JoinSeqs(parts, ",") \o <<"}">>

\* config.validateResponse(res)
validateResponse(res) ==
  IF ~Truthy(res) THEN TRUE
  ELSE IF Truthy(Field(res, "code")) /\ Field(res, "code") \notin {Str("SUCCESS"), Num("200")}
  THEN FALSE
  ELSE IF Truthy(Field(res, "status")) /\ Field(res, "status") \in {Str("error"), Str("fail")}
  THEN FALSE
  ELSE Field(res, "result") # Bool(FALSE)

\* config.extractData(res)
libExtractData(res) ==
  IF Truthy(res) /\ res.t = "object"
  THEN IF Field(res, "total") # Undef \/ Field(res, "page") # Undef THEN res
       ELSE IF Field(res, "data") # Undef THEN Field(res, "data")
       ELSE IF Field(res, "result") # Undef THEN Field(res, "result")
       ELSE res
  ELSE res

\* The server of the POST endpoint: it answers a body with a payload that
\* carries the body back, with 200, with 200 and status "error", or with 500.
LibAnswers == {"ok", "refused", "http"}
ServerAnswer(body, kind) ==
  CASE kind = "ok" ->
         [ok |-> TRUE, data |-> Obj(<<[k |-> "data", v |-> Text(body)]>>)]
    [] kind = "refused" ->
         [ok |-> TRUE, data |-> Obj(<<[k |-> "status", v |-> Str("error")],
                                      [k |-> "message", v |-> Str("denied")],
                                      [k |-> "data", v |-> Text(body)]>>)]
    [] OTHER ->
         [ok |-> FALSE, data |-> Obj(<<[k |-> "message", v |-> Str("boom")]>>)]

\* Mutant: a call made while a fetch of the endpoint is unanswered joins it.
libFetchShared(st, body) ==
  LET open == {f \in 1..Len(st.fetches) : ~st.fetches[f].answered}
  IN IF open # {}
     THEN [fetches |-> st.fetches, via |-> CHOOSE f \in open : \A g \in open : f <= g]
     ELSE [fetches |-> Append(st.fetches, [body |-> body, answered |-> FALSE]),
           via |-> Len(st.fetches) + 1]

\* fetch(fullUrl, {method, headers, body}): a network call of the caller's own.
libFetch(st, body) ==
  [fetches |-> Append(st.fetches, [body |-> body, answered |-> FALSE]),
   via |-> Len(st.fetches) + 1]

\* request("POST", name, url, payload, options) up to its first await, no
\* before-interceptor being installed: the messages are reset, the loading count
\* goes up, dataStore[name] becomes null and the fetch leaves.
libRequest(st, payload) ==
  LET sent == libFetch(st, JsonStringify(payload))
      flying == {i \in 1..Len(st.calls) : st.calls[i].state = "flying"}
  IN [st EXCEPT !.error = Null, !.success = Null,
                !.activeRequests = @ + 1,
                !.data = Null,
                !.fetches = sent.fetches,
                !.calls = Append(@, [payload |-> payload, via |-> sent.via,
                                     state |-> "flying", overlap |-> flying])]

\* The rest of request after the response of its fetch: parse, validate,
\* extract, the stores, and the return or the throw.
libConclude(response) ==
  IF ~response.ok \/ ~validateResponse(response.data)
  THEN [failed |-> TRUE, value |-> Undef,
        message |-> IF Truthy(Field(response.data, "message"))
                    THEN Field(response.data, "message") ELSE Str("Request failed")]
  ELSE [failed |-> FALSE, value |-> libExtractData(response.data),
        message |-> Field(response.data, "message")]

\* api.save(payload) is called.
LibPost(payload) ==
  /\ Len(lib.calls) < MaxLibCalls
  /\ lib' = libRequest(lib, payload)
  /\ UNCHANGED <<baseVars, cacheHist, engineVars, lastReg, pager, keyRun, helperVars,
                 icept, debounce, callers>>

\* The server answers fetch f and the calls awaiting it run to their end:
\* try, catch and finally (stopLoading).
LibAnswer(f, kind) ==
  /\ f \in 1..Len(lib.fetches) /\ ~lib.fetches[f].answered
  /\ LET c == libConclude(ServerAnswer(lib.fetches[f].body, kind))
         mine == {i \in 1..Len(lib.calls) : lib.calls[i].via = f}
     IN lib' = [lib EXCEPT
                  !.fetches[f].answered = TRUE,
                  !.calls = [i \in 1..Len(@) |->
                               IF i \in mine
                               THEN [payload |-> @[i].payload, via |-> f, state |-> "done",
                                     overlap |-> @[i].overlap, failed |-> c.failed,
                                     value |-> c.value, message |-> c.message]
                               ELSE @[i]],
                  !.data = IF c.failed THEN @ ELSE c.value,
                  !.error = IF c.failed THEN c.message ELSE @,
                  !.success = IF ~c.failed /\ Truthy(c.message) THEN c.message ELSE @,
                  !.activeRequests = @ - Cardinality(mine)]
  /\ UNCHANGED <<baseVars, cacheHist, engineVars, lastReg, pager, keyRun, helperVars,
                 icept, debounce, callers>>

NextLib ==
  \/ \E payload \in {Pab, Pid} : LibPost(payload)
  \/ \E f \in 1..MaxLibCalls, kind \in LibAnswers : LibAnswer(f, kind)

SpecLib == Init /\ [][NextLib]_vars

C29_NoExpiredReturned ==
  (LookedUpStored /\ MapGet(lastOp.before, lastOp.key).expiry <= lastOp.time) =>
    (lastOp.value = Null /\ ~MapHas(cacheStore, lastOp.key))

\* A capacity with room for a rewrite: a store of MaxSize entries is full or
\* holds one key only, so a stored key is rewritten next to another one only
\* in a larger store.
RewriteSize == MaxSize + 1

\* A completed request writes value under key with the given TTL.
RewriteSetOp(key, w) ==
  /\ nops < MaxOps
  /\ cacheStore' = cacheSetIn(cacheStore, key, w.value, w.ttl, now, RewriteSize)
  /\ lastOp' = [op |-> "set", key |-> key, time |-> now, value |-> w.value, ttl |-> w.ttl,
                before |-> cacheStore, order |-> insOrder]
  /\ insOrder' = LET kept == Surviving(insOrder, EvictOldestIn(cacheStore, RewriteSize))
                     wr == [key |-> key, value |-> w.value, ttl |-> w.ttl, at |-> now]
                 IN MapSet(kept, key, wr)
  /\ nops' = nops + 1
  /\ UNCHANGED <<variant, now, anyRead>>
  /\ UNCHANGED cacheIdle

NextRewrite ==
  \/ \E key \in CacheKeys, w \in CacheWrites : RewriteSetOp(key, w)
  \/ \E key \in CacheKeys : CacheGetOp(key)
  \/ Tick

SpecRewrite == InitCache /\ [][NextRewrite]_vars

\* C30: writing a value for a key that is already stored moves the key to the
\* freshest position of the eviction order (the end of the Map), so that it is
\* evicted only after the keys written before that write.
C30_RewriteIsFreshest ==
  (lastOp.op = "set" /\ MapHas(lastOp.before, lastOp.key)) =>
    cacheStore[Len(cacheStore)].key = lastOp.key

\* ---------------------------------------------------------------------------
\* withRetry next to unrelated calls: two runs of withRetry on the same fn,
\* whose attempts do the same in both runs, each run interleaved in its own way
\* with the calls that reset and set messageState.
\* ---------------------------------------------------------------------------

\* The locals of a run at its start: the loop is entered, fn is invoked.
RunAtStart(fn, retries) ==
  [stage |-> "calling", fn |-> fn, retries |-> retries, delay |-> 1, backoff |-> 2,
   attempt |-> 0, lastError |-> Undef, result |-> Undef, calls |-> 1, waits |-> <<>>,
   settled |-> Undef]

\* What attempt k of fn does: a plain function's outcome, or the response the
\* network gives the endpoint call.
TwinAttempts(fn, k) ==
  IF fn = "plain" THEN {[outcome |-> o] : o \in PlainOutcomes(k)}
  ELSE {[response |-> r] : r \in {RespOk1, RespHttp}}

\* The promise numbers of the two runs' endpoint calls.
TwinBase(side) == IF side = "left" THEN 0 ELSE MaxRetries + 1

\* messageState after request's try or catch block, c being its conclusion.
messageAfter(ms, c) ==
  IF c.failed THEN [ms EXCEPT !.error = [message |-> c.message]]
  ELSE IF Truthy(c.data) /\ IsObjectLike(c.data) /\ Truthy(Field(c.data, "message"))
  THEN [ms EXCEPT !.success = Field(c.data, "message")]
  ELSE ms

\* withRetry(fn, {retries}) is called in both runs; an endpoint call resets
\* messageState as every request does.
TwinStart(fn, retries) ==
  /\ retry.stage = "none"
  /\ retry' = [stage |-> "twin", left |-> RunAtStart(fn, retries),
               right |-> RunAtStart(fn, retries), script |-> <<>>]
  /\ messageState' = IF fn = "endpoint" THEN [error |-> NoError, success |-> Null]
                     ELSE messageState
  /\ UNCHANGED <<baseVars, cacheHist, api, reqs, pendingRequests, activeControllers,
                 dataStore, loadingState, lastReg, pager, keyRun, laterVars,
                 errorByPromise, hooks, poller>>

\* The attempt of a run settles: fn() returns or throws, or the request of the
\* endpoint call concludes (try, catch, finally) and its promise resolves.
\* The left run's attempt decides what the attempt does; the right run's does
\* the same.
TwinSettles(side, x) ==
  /\ retry.stage = "twin" /\ retry[side].stage = "calling"
  /\ LET st == retry[side]
     IN /\ IF side = "left"
           THEN x \in TwinAttempts(st.fn, st.attempt)
           ELSE Len(retry.script) >= st.calls /\ x = retry.script[st.calls]
        /\ retry' = [retry EXCEPT
                       ![side] = [st EXCEPT !.stage = "settled", !.settled = x],
                       !.script = IF side = "left" THEN Append(@, x) ELSE @]
        /\ IF st.fn = "endpoint"
           THEN /\ errorByPromise' = RecordOutcome(errorByPromise, TwinBase(side) + st.calls,
                                                   x.response)
                /\ messageState' = messageAfter(messageState,
                                                Conclude(variant, HelperReq, x.response))
           ELSE UNCHANGED <<errorByPromise, messageState>>
  /\ UNCHANGED <<baseVars, cacheHist, api, reqs, pendingRequests, activeControllers,
                 dataStore, loadingState, lastReg, pager, keyRun, laterVars, hooks, poller>>

\* The continuation of withRetry after `await p`: the lookup and the decision.
TwinContinues(side) ==
  /\ retry.stage = "twin" /\ retry[side].stage = "settled"
  /\ LET st == retry[side]
         outcome == IF st.fn = "plain" THEN st.settled.outcome
                    ELSE [threw |-> FALSE, error |-> Undef,
                          result |-> Conclude(variant, HelperReq, st.settled.response).result]
         p == IF st.fn = "plain" THEN [of |-> "plain"]
              ELSE PromiseResolve(EndpointPromise(TwinBase(side) + st.calls))
     IN retry' = [retry EXCEPT
                    ![side] = [withRetry(st, outcome, ErrorLookup(errorByPromise, p))
                                 EXCEPT !.settled = Undef]]
  /\ UNCHANGED <<baseVars, cacheHist, engineVars, lastReg, pager, keyRun, laterVars,
                 errorByPromise, hooks, poller>>

\* The wait of a run is over: fn is invoked again.
TwinAgain(side) ==
  /\ retry.stage = "twin" /\ retry[side].stage = "waiting"
  /\ retry' = [retry EXCEPT ![side].stage = "calling", ![side].attempt = @ + 1,
                            ![side].calls = @ + 1]
  /\ messageState' = IF retry[side].fn = "endpoint" THEN [error |-> NoError, success |-> Null]
                     ELSE messageState
  /\ UNCHANGED <<baseVars, cacheHist, api, reqs, pendingRequests, activeControllers,
                 dataStore, loadingState, lastReg, pager, keyRun, laterVars,
                 errorByPromise, hooks, poller>>

\* An unrelated endpoint is called: request resets messageState.
OtherCall ==
  /\ retry.stage = "twin"
  /\ messageState # [error |-> NoError, success |-> Null]
  /\ messageState' = [error |-> NoError, success |-> Null]
  /\ UNCHANGED <<baseVars, cacheHist, api, reqs, pendingRequests, activeControllers,
                 dataStore, loadingState, lastReg, pager, keyRun, helperVars, laterVars>>

\* An unrelated call concludes, as a success or as a failure.
OtherSettle(response) ==
  /\ retry.stage = "twin"
  /\ messageState' = messageAfter(messageState, Conclude(variant, HelperReq, response))
  /\ messageState' # messageState
  /\ UNCHANGED <<baseVars, cacheHist, api, reqs, pendingRequests, activeControllers,
                 dataStore, loadingState, lastReg, pager, keyRun, helperVars, laterVars>>

TwinSides == {"left", "right"}

NextTwin ==
  \/ \E fn \in {"plain", "endpoint"}, retries \in {0, 1} : TwinStart(fn, retries)
  \/ \E side \in TwinSides :
       \E x \in TwinAttempts("plain", 0) \cup TwinAttempts("plain", 1)
                \cup TwinAttempts("endpoint", 0) : TwinSettles(side, x)
  \/ \E side \in TwinSides : TwinContinues(side)
  \/ \E side \in TwinSides : TwinAgain(side)
  \/ OtherCall
  \/ \E response \in {RespOkMsg2, RespApp} : OtherSettle(response)

SpecTwin == Init /\ [][NextTwin]_vars

\* A run is over: withRetry returned or threw.
RunOver(st) == st.stage \in {"returned", "threw"}

\* C31: what withRetry does for a given fn (how often it retries, whether it
\* returns or throws, and with which value) does not depend on messageState:
\* two runs whose attempts do the same end the same, whatever unrelated calls
\* reset or set messageState.error in between.
C31_RetryIgnoresMessages ==
  (retry.stage = "twin" /\ RunOver(retry.left) /\ RunOver(retry.right)) =>
    retry.left = retry.right

\* Both runs are over after a failed endpoint call each, one having continued
\* while messageState.error was set and the other after it had been reset.
C31_Witness ==
  /\ retry.stage = "twin" /\ RunOver(retry.left) /\ RunOver(retry.right)
  /\ retry.left.fn = "endpoint" /\ retry.left.result = Null
  /\ retry.script = <<[response |-> RespHttp]>>
  /\ messageState.error = NoError

\* ---------------------------------------------------------------------------
\* the cancellation registry
\* ---------------------------------------------------------------------------

\* Endpoints whose calls are never joined, so that calls of one name overlap.
AbortRegistrations(v) ==
  { [name |-> "users", ep |-> makeWriteMethod(v, "POST", UrlUsers, NoOptions)],
    [name |-> "docs", ep |-> del(v, UrlDocs, [NoOptions EXCEPT !.dedupe = "off"])] }

NextAbort ==
  \/ \E reg \in AbortRegistrations(variant) : Register(reg)
  \/ \E name \in Names : \E params \in ParamsOf(name) : Call(name, params)
  \/ \E r \in 1..MaxReqs, response \in {RespOk1, RespHttp, Rejection} : Settle(r, response)
  \/ \E r \in 1..MaxReqs : Timeout(r)
  \/ \E name \in Names : Abort(name)
  \/ AbortAll
  \/ Tick

SpecAbort == Init /\ [][NextAbort]_vars

\* C32: every token in activeControllers belongs to a call in flight under
\* that name and no name is mapped to an empty set; the cleanup of a call that
\* finishes removes that call's token and no other, also when the other call
\* was started under the same name after an abort.
C32_RegistryTokens ==
  /\ [](\A name \in DOMAIN activeControllers :
          /\ activeControllers[name] # {}
          /\ \A c \in activeControllers[name] : c \in Dispatched /\ reqs[c].name = name)
  /\ [][\A r \in 1..MaxReqs : \A response \in {RespOk1, RespHttp, Rejection} :
          (r \in DOMAIN reqs /\ Settle(r, response))
          => \A name \in Names :
               (IF name \in DOMAIN activeControllers' THEN activeControllers'[name] ELSE {})
                 = AbortTargets(name) \ {r}]_vars

\* A call aborted by abort(name) is still awaiting its rejection while a call
\* started under the same name after the abort holds the only token.
C32_Witness ==
  \E r, s \in DOMAIN reqs :
    /\ r # s /\ reqs[r].name = reqs[s].name
    /\ reqs[r].byAbort /\ ~reqs[s].aborted
    /\ activeControllers = (reqs[s].name :> {s})

\* ---------------------------------------------------------------------------
\* what a failed call leaves behind
\* ---------------------------------------------------------------------------

NextFrame ==
  \/ \E reg \in Registrations(variant) : Register(reg)
  \/ \E name \in Names : \E params \in ParamsOf(name) : Call(name, params)
  \/ \E r \in 1..MaxReqs, response \in Responses : Settle(r, response)
  \/ \E r \in 1..MaxReqs, response \in Responses : SettleBackground(r, response)
  \/ Tick

SpecFrame == Init /\ [][NextFrame]_vars

\* The request r concludes with the given response, in the foreground or as a
\* background refresh.
Concludes(r, response) == Settle(r, response) \/ SettleBackground(r, response)

\* C33: a call that concludes as a failure leaves dataStore and the cache as
\* they were; an entry is created or replaced in the cache, and dataStore is
\* written, only in the step in which a call (foreground or background)
\* concludes as a success.
C33_FailureWritesNothing ==
  [][/\ \A r \in DOMAIN reqs : \A response \in Responses :
          (Conclude(variant, reqs[r], response).failed /\ Concludes(r, response))
            => (dataStore' = dataStore /\ cacheStore' = cacheStore)
     /\ (~(Entries(cacheStore') \subseteq Entries(cacheStore)) \/ dataStore' # dataStore)
          => \E r \in DOMAIN reqs : \E response \in Responses :
               ~Conclude(variant, reqs[r], response).failed /\ Concludes(r, response)]_vars

\* A call has failed after an earlier one succeeded: the error is set, and the
\* value and the cache entry of the earlier call are still there.
C33_Witness ==
  /\ messageState.error = [message |-> "boom"]
  /\ reqs = <<>>
  /\ "users" \in DOMAIN dataStore /\ dataStore["users"] = Num("1")
  /\ \E e \in Entries(cacheStore) : e.value = Num("1")

\* ---------------------------------------------------------------------------
\* null as a result
\* ---------------------------------------------------------------------------

\* 204 No Content, and 200 with the body {"data": null}.
RespNoContent == Response(TRUE, TRUE, FALSE, FALSE, Null)
RespNullData == Response(TRUE, FALSE, TRUE, TRUE, Obj(<<[k |-> "data", v |-> Null]>>))
NullResponses == {RespOk1, RespHttp, RespNoContent, RespNullData}

NullRegistrations(v) ==
  { [name |-> "users", ep |-> get(v, UrlUsers, NoOptions)],
    [name |-> "docs", ep |-> del(v, UrlDocs, NoOptions)] }

NextNull ==
  \/ \E reg \in NullRegistrations(variant) : Register(reg)
  \/ \E name \in Names : \E params \in ParamsOf(name) : Call(name, params)
  \/ \E r \in 1..MaxReqs, response \in NullResponses : Settle(r, response)
  \/ Tick

SpecNull == Init /\ [][NextNull]_vars

\* C34: a call resolves to null only if it failed: when the result of a call
\* is null, messageState.error is set at its conclusion; a call that succeeds
\* never resolves to null and null is never stored in dataStore or the cache.
C34_NullMeansFailure ==
  /\ [](/\ \A name \in DOMAIN dataStore : dataStore[name] # Null
        /\ \A e \in Entries(cacheStore) : e.value # Null)
  /\ [][\A r \in DOMAIN reqs : \A response \in NullResponses :
          (Conclude(variant, reqs[r], response).result = Null /\ Settle(r, response))
            => (Conclude(variant, reqs[r], response).failed
                /\ messageState'.error # NoError)]_vars

\* ---------------------------------------------------------------------------
\* callers and their continuations: `const data = await api.users(p)` followed
\* by a look at hasError()
\* ---------------------------------------------------------------------------

\* A caller that awaits nothing yet.
NoCaller == [stage |-> "idle", turns |-> 0]
Caller(c) == IF c \in DOMAIN callers THEN callers[c] ELSE NoCaller
CallerIds == 1..MaxReqs
\* The callers whose awaited promise has resolved and whose continuation has
\* not run yet: the microtasks queued.
Queued == {c \in DOMAIN callers : callers[c].stage = "resolved"}

CallerRegistrations(v) ==
  { [name |-> "users", ep |-> get(v, UrlUsers, [NoOptions EXCEPT !.cache = "no-cache"])] }

\* hasError()
hasError(ms) == ms.error # NoError

\* A caller calls api[name](params) and awaits the promise: in an event
\* handler of its own (no continuation being queued), or in its continuation
\* after an earlier call.
CallerCalls(c, name, params) ==
  /\ Caller(c).stage \in {"idle", "done"} /\ Caller(c).turns < 2
  /\ Caller(c).stage = "idle" => Queued = {}
  /\ name \in DOMAIN api /\ CallVia(name, params) # "cache"
  /\ request(name, params)
  /\ LET on == IF CallVia(name, params) = "join"
               THEN pendingRequests[KeyOf(name, params)] ELSE NewId
         ahead == {d \in DOMAIN callers : callers[d].stage = "awaiting" /\ callers[d].on = on}
     IN callers' = FnSet(callers, c, [stage |-> "awaiting", on |-> on,
                                      rank |-> Cardinality(ahead),
                                      turns |-> Caller(c).turns + 1])
  /\ UNCHANGED <<cacheHist, lastReg, pager, keyRun, helperVars, icept, debounce, lib>>

\* The network answers request r, no continuation being queued: the rest of
\* the async body of request runs (try, catch, finally) and the promise
\* resolves for every caller awaiting it.
CallersSettle(r, response) ==
  /\ r \in DOMAIN reqs /\ ~reqs[r].bg
  /\ Queued = {}
  /\ LET req == reqs[r]
         c == Conclude(variant, req, response)
     IN /\ dataStore' = IF c.failed THEN dataStore ELSE FnSet(dataStore, req.name, c.result)
        /\ messageState' = messageAfter(messageState, c)
        /\ activeControllers' = removeController(activeControllers, req.name, r)
        /\ pendingRequests' = IF req.dedupe THEN FnRemove(pendingRequests, req.key)
                              ELSE pendingRequests
        /\ loadingState' = endLoading(loadingState, r)
        /\ reqs' = FnRemove(reqs, r)
        /\ callers' = [d \in DOMAIN callers |->
                         IF callers[d].stage = "awaiting" /\ callers[d].on = r
                         THEN [stage |-> "resolved", on |-> r, rank |-> callers[d].rank,
                               turns |-> callers[d].turns, result |-> c.result,
                               failed |-> c.failed]
                         ELSE callers[d]]
  /\ UNCHANGED <<baseVars, api, cacheHist, lastReg, pager, keyRun, helperVars,
                 icept, debounce, lib>>

\* The continuation of a caller runs, in the order in which the callers
\* started to await the promise: it has the result and looks at hasError().
CallerResumes(c) ==
  /\ c \in Queued
  /\ \A d \in Queued : callers[d].rank >= callers[c].rank
  /\ callers' = [callers EXCEPT ![c] = [stage |-> "done", turns |-> @.turns,
                                        result |-> @.result, failed |-> @.failed,
                                        sawError |-> hasError(messageState)]]
  /\ UNCHANGED <<baseVars, cacheHist, engineVars, lastReg, pager, keyRun, helperVars,
                 icept, debounce, lib>>

NextCallers ==
  \/ \E reg \in CallerRegistrations(variant) : Register(reg)
  \/ \E c \in CallerIds : \E params \in ParamsOf("users") : CallerCalls(c, "users", params)
  \/ \E r \in 1..MaxReqs, response \in {RespOk1, RespHttp, RespApp} : CallersSettle(r, response)
  \/ \E c \in CallerIds : CallerResumes(c)

SpecCallers == Init /\ [][NextCallers]_vars

\* C35: every caller that is given null by a failed call sees hasError() true
\* when its continuation runs, also when it was joined to the call of another
\* caller whose continuation ran first and started a new request.
C35_FailureSeesError ==
  \A c \in DOMAIN callers :
    (callers[c].stage = "done" /\ callers[c].failed) => callers[c].sawError

\* ---------------------------------------------------------------------------
\* calls issued after an abort
\* ---------------------------------------------------------------------------

\* De-duplicated endpoints.
ReissueRegistrations(v) ==
  { [name |-> "users", ep |-> get(v, UrlUsers, [NoOptions EXCEPT !.cache = "no-cache"])],
    [name |-> "docs", ep |-> del(v, UrlDocs, NoOptions)] }

NextReissue ==
  \/ \E reg \in ReissueRegistrations(variant) : Register(reg)
  \/ \E name \in Names : \E params \in ParamsOf(name) : Call(name, params)
  \/ \E r \in 1..MaxReqs, response \in {RespOk1, RespHttp, Rejection} : Settle(r, response)
  \/ \E name \in Names : Abort(name)
  \/ AbortAll

SpecReissue == Init /\ [][NextReissue]_vars

\* C36: a call issued after abort(name) or abortAll() has returned is not
\* failed by that abort, also when it has the request key of an aborted call
\* whose cleanup has not run yet: it is never handed the promise of a call
\* that abort(name) or abortAll() has aborted.
C36_AbortSparesLaterCalls ==
  [][\A name \in DOMAIN api : \A params \in ParamsOf(name) :
       (CallVia(name, params) = "join" /\ Call(name, params))
         => ~reqs[pendingRequests[KeyOf(name, params)]].byAbort]_vars

\* ---------------------------------------------------------------------------
\* clearCache and the calls in flight
\* ---------------------------------------------------------------------------

\* The cached endpoints, one of them refreshed in the background.
StaleRegistrations(v) ==
  ClearRegistrations(v)
  \cup { [name |-> "users", ep |-> get(v, UrlUsers, [NoOptions EXCEPT !.swr = TRUE])] }

\* The request was in flight under a key a clearCache call has cleared.
Stale(r) == "cleared" \in DOMAIN reqs[r]
\* clearCache(pattern) clears the key: no pattern, or a pattern the key contains.
Clears(pattern, key) == pattern = <<>> \/ Includes(key, pattern)

\* clearCache(pattern) is called by the application; the requests in flight
\* under the keys it clears are marked.
ClearCacheInFlight(pattern) ==
  /\ cacheStore' = clearCache(cacheStore, pattern)
  /\ reqs' = [r \in DOMAIN reqs |->
               IF Clears(pattern, reqs[r].key) THEN ("cleared" :> TRUE) @@ reqs[r]
               ELSE reqs[r]]
  /\ UNCHANGED <<variant, now, api, pendingRequests, activeControllers, messageState,
                 dataStore, loadingState>>
  /\ UNCHANGED engineIdle

NextStale ==
  \/ \E reg \in StaleRegistrations(variant) : Register(reg)
  \/ \E name \in Names : \E params \in ParamsOf(name) : Call(name, params)
  \/ \E r \in 1..MaxReqs, response \in {RespOk1, RespHttp} : Settle(r, response)
  \/ \E r \in 1..MaxReqs, response \in {RespOkMsg2, RespHttp} : SettleBackground(r, response)
  \/ \E pattern \in ClearPatterns : ClearCacheInFlight(pattern)

SpecStale == Init /\ [][NextStale]_vars

\* C37: after clearCache has cleared a key, a network call dispatched before
\* the clear neither writes the cache when it concludes (foreground call or
\* background refresh) nor serves a caller that calls after the clear.
C37_ClearIsFinal ==
  [][/\ \A r \in DOMAIN reqs : \A response \in {RespOk1, RespOkMsg2, RespHttp} :
          (Stale(r) /\ Concludes(r, response))
            => Entries(cacheStore') \subseteq Entries(cacheStore)
     /\ \A name \in DOMAIN api : \A params \in ParamsOf(name) :
          (CallVia(name, params) = "join" /\ Call(name, params))
            => ~Stale(pendingRequests[KeyOf(name, params)])]_vars

\* ---------------------------------------------------------------------------
\* before interceptor
\* ---------------------------------------------------------------------------

\* What interceptors.before does: returns, throws, or returns a promise that
\* resolves or rejects.
BeforeKinds == {"returns", "throws", "resolves", "rejects"}

BeforeRegistrations(v) ==
  { [name |-> "users", ep |-> get(v, UrlUsers, [NoOptions EXCEPT !.cache = "no-cache"])],
    [name |-> "docs", ep |-> makeWriteMethod(v, "POST", UrlDocs, NoOptions)] }

\* api[name](params) with interceptors.before installed.  The advanced
\* callable awaits the interceptor before it calls request, so a throw or a
\* rejection rejects the callable's promise and request is never reached.  The
\* basic callable calls request at once and the interceptor runs inside
\* fn(signal), when request gets to it: a throw or rejection is caught by
\* request's catch block, and finally undoes the registrations.
BeforeCall(kind, name, params) ==
  /\ name \in DOMAIN api
  /\ LET invoked == variant = "advanced" \/ CallVia(name, params) = "network"
         fails == invoked /\ kind \in {"throws", "rejects"}
     IN IF ~fails
        THEN /\ request(name, params)
             /\ icept' = [stage |-> "called", kind |-> kind, fails |-> FALSE,
                          outcome |-> "pending", sawError |-> FALSE, clean |-> FALSE]
        ELSE IF variant = "advanced"
        THEN /\ icept' = [stage |-> "called", kind |-> kind, fails |-> TRUE,
                          outcome |-> "rejected", sawError |-> hasError(messageState),
                          clean |-> TRUE]
             /\ UNCHANGED <<baseVars, engineVars>>
        ELSE /\ FreeIds # {}
             /\ messageState' = [error |-> [message |-> "before"], success |-> Null]
             /\ loadingState' = endLoading(startLoading(loadingState, NewId), NewId)
             /\ activeControllers' =
                  removeController(addController(activeControllers, name, NewId), name, NewId)
             /\ icept' = [stage |-> "called", kind |-> kind, fails |-> TRUE,
                          outcome |-> "null", sawError |-> TRUE,
                          clean |-> activeControllers' = activeControllers]
             /\ UNCHANGED <<baseVars, api, reqs, pendingRequests, dataStore>>
  /\ UNCHANGED <<cacheHist, lastReg, pager, keyRun, helperVars, debounce, lib, callers>>

NextBefore ==
  \/ \E reg \in BeforeRegistrations(variant) : Register(reg)
  \/ \E kind \in BeforeKinds : \E name \in Names : \E params \in ParamsOf(name) :
       BeforeCall(kind, name, params)
  \/ \E r \in 1..MaxReqs, response \in {RespOk1, RespHttp} : Settle(r, response)

SpecBefore == Init /\ [][NextBefore]_vars

\* C38: in the advanced variant a call whose before interceptor throws or
\* returns a rejecting promise resolves to null with messageState.error set,
\* its promise does not reject, and it leaves nothing registered.
C38_BeforeFailureIsNull ==
  (variant = "advanced" /\ icept.stage = "called" /\ icept.fails) =>
    (icept.outcome = "null" /\ icept.sawError /\ icept.clean)

\* ---------------------------------------------------------------------------
\* poll, stop handles, stopPoll, stopAllPolls over several polls
\* ---------------------------------------------------------------------------
\* The polls are numbered in the order of the poll() calls; poll g owns the
\* interval timer g.  names[g] is its endpoint, timers the set of live interval
\* timers, pollingIntervals the map name -> recorded timer (the state object
\* of the advanced variant holds the timer of the same number), flying the
\* endpoint calls <<g, k>> in flight, ended the polls stopped or replaced.
MaxPolls == MaxServed
MaxPollCalls == MaxReqs

PollsAtLoad ==
  [stage |-> "polls", names |-> <<>>, timers |-> {}, pollingIntervals |-> <<>>,
   calls |-> <<>>, flying |-> {}, ended |-> {}, last |-> [cb |-> "none"]]

Polls == IF poller.stage = "polls" THEN poller ELSE PollsAtLoad

\* clearInterval of the timer recorded under name, if one is recorded.
clearRecorded(st, name) ==
  IF name \in DOMAIN st.pollingIntervals
  THEN st.timers \ {st.pollingIntervals[name]}
  ELSE st.timers

\* fetchData of poll g up to its await.
pollsFetchHead(st, g) ==
  IF (variant = "advanced" /\ \E c \in st.flying : c[1] = g) \/ st.calls[g] >= MaxPollCalls
  THEN st
  ELSE [st EXCEPT !.calls[g] = @ + 1, !.flying = @ \cup {<<g, st.calls[g] + 1>>}]

\* poll(name, params, {immediate, onData, onError}).
PollsPoll(name, immediate) ==
  /\ poller.stage \in {"none", "polls"}
  /\ Len(Polls.names) < MaxPolls
  /\ LET g == Len(Polls.names) + 1
         st == [Polls EXCEPT
                  !.timers = clearRecorded(Polls, name) \cup {g},
                  !.pollingIntervals = FnSet(@, name, g),
                  !.names = Append(@, name),
                  !.calls = Append(@, 0),
                  !.ended = @ \cup {h \in 1..Len(Polls.names) : Polls.names[h] = name}]
     IN poller' = IF immediate THEN pollsFetchHead(st, g) ELSE st
  /\ UNCHANGED <<baseVars, cacheHist, engineVars, lastReg, pager, keyRun, laterVars,
                 errorByPromise, retry, hooks>>

\* The interval timer g fires: fetchData().
PollsTick(g) ==
  /\ poller.stage = "polls" /\ g \in poller.timers
  /\ poller' = pollsFetchHead(poller, g)
  /\ poller' # poller
  /\ UNCHANGED <<baseVars, cacheHist, engineVars, lastReg, pager, keyRun, laterVars,
                 errorByPromise, retry, hooks>>

\* The endpoint call c of a poll settles and fetchData goes on after its
\* await: it invokes onError or onData.  Nothing in fetchData looks at
\* pollingIntervals or at the timer.
PollsSettle(c, response) ==
  /\ poller.stage = "polls" /\ c \in poller.flying
  /\ LET res == Conclude(variant, HelperReq, response)
         err == ErrorLookup(RecordOutcome(<<>>, 1, response), PromiseResolve(EndpointPromise(1)))
     IN poller' = [poller EXCEPT
                     !.flying = @ \ {c},
                     !.last = [cb |-> fetchData(res.result, err).cb, poll |-> c[1],
                               ended |-> c[1] \in poller.ended]]
  /\ UNCHANGED <<baseVars, cacheHist, engineVars, lastReg, pager, keyRun, laterVars,
                 errorByPromise, retry, hooks>>

\* stopPoll(name).
stopPoll(st, name) ==
  IF name \in DOMAIN st.pollingIntervals
  THEN [st EXCEPT !.timers = clearRecorded(st, name),
                  !.pollingIntervals = FnRemove(@, name),
                  !.ended = @ \cup {st.pollingIntervals[name]}]
  ELSE st

\* The stop handle poll g returned.  src/data.js: it clears the timer g it
\* closed over and deletes the entry of its name, whatever that entry holds.
\* Advanced: it is stopPoll(name).
stopHandle(st, g) ==
  IF variant = "advanced"
  THEN [stopPoll(st, st.names[g]) EXCEPT !.ended = @ \cup {g}]
  ELSE [st EXCEPT !.timers = @ \ {g},
                  !.pollingIntervals = FnRemove(@, st.names[g]),
                  !.ended = @ \cup {g}]

PollsHandle(g) ==
  /\ poller.stage = "polls" /\ g \in 1..Len(poller.names)
  /\ poller' = stopHandle(poller, g)
  /\ poller' # poller
  /\ UNCHANGED <<baseVars, cacheHist, engineVars, lastReg, pager, keyRun, laterVars,
                 errorByPromise, retry, hooks>>

PollsStop(name) ==
  /\ poller.stage = "polls" /\ name \in DOMAIN poller.pollingIntervals
  /\ poller' = stopPoll(poller, name)
  /\ UNCHANGED <<baseVars, cacheHist, engineVars, lastReg, pager, keyRun, laterVars,
                 errorByPromise, retry, hooks>>

\* stopAllPolls(): every recorded timer is cleared, the map is emptied.
stopAllPolls(st) ==
  [st EXCEPT !.timers = @ \ {st.pollingIntervals[x] : x \in DOMAIN st.pollingIntervals},
             !.pollingIntervals = <<>>,
             !.ended = @ \cup {st.pollingIntervals[x] : x \in DOMAIN st.pollingIntervals}]

PollsStopAll ==
  /\ poller.stage = "polls"
  /\ poller' = stopAllPolls(poller)
  /\ poller' # poller
  /\ UNCHANGED <<baseVars, cacheHist, engineVars, lastReg, pager, keyRun, laterVars,
                 errorByPromise, retry, hooks>>

NextPolls ==
  \/ \E name \in Names, immediate \in BOOLEAN : PollsPoll(name, immediate)
  \/ \E g \in 1..MaxPolls : PollsTick(g)
  \/ \E g \in 1..MaxPolls, k \in 1..MaxPollCalls, response \in {RespOk1, RespHttp} :
       PollsSettle(<<g, k>>, response)
  \/ \E name \in Names : PollsStop(name)
  \/ \E g \in 1..MaxPolls : PollsHandle(g)
  \/ PollsStopAll

SpecPolls == Init /\ [][NextPolls]_vars

\* C39: a poll that was stopped (stop handle, stopPoll, stopAllPolls) or
\* replaced by a new poll() of its name never has onData or onError invoked
\* again, even with one of its endpoint calls in flight at the stop.
C39_NoCallbackAfterStop ==
  (poller.stage = "polls" /\ poller.last.cb \in {"onData", "onError"}) => ~poller.last.ended

\* C40: in src/data.js every live interval timer is recorded in
\* pollingIntervals under its endpoint name, so that stopAllPolls() leaves no
\* timer and stopPoll(name) none for name, also when the stop handle of a
\* replaced poll is invoked after the replacement.
C40_TimersRecorded ==
  (variant = "basic" /\ poller.stage = "polls") =>
    \A g \in poller.timers :
      /\ poller.names[g] \in DOMAIN poller.pollingIntervals
      /\ poller.pollingIntervals[poller.names[g]] = g

====
